---- MODULE Spec2Model ----
(***************************************************************************)
(* A model of the tweet ingestion strategies of sql_vs_functions.py:       *)
(* populate_tables_web_1B, populate_tables_txt_1C and batch_insert_data_1D *)
(* loading newline-delimited JSON into the USER, GEO and TWEET tables of a *)
(* SQLite database through INSERT OR IGNORE statements.                    *)
(*                                                                         *)
(* Python and JSON values are tagged records, so that values of different  *)
(* Python types can be compared: None, str, int, float, list and dict.     *)
(* A dict carries a TLA+ record whose DOMAIN is the set of its keys.       *)
(***************************************************************************)
EXTENDS Integers, Sequences, FiniteSets, TLC

\* ------------------------------------------------------------ bounds
\* Longest input (number of lines of the file / the response).
MaxLines == 2
\* Largest total_tweets passed to a strategy.
MaxTarget == 2
\* Largest batch_size passed to batch_insert_data_1D.
MaxBatch == 2
\* Number of strategy invocations in one behaviour.
MaxRuns == 2
\* Largest iteration count and longest iteration_counts list (part 2).
MaxIterations == 3
MaxCounts == 3

\* ------------------------------------------------------------ values
None == [t |-> "none"]
Str(s) == [t |-> "str", s |-> s]
PyInt(n) == [t |-> "int", neg |-> FALSE, w |-> n]
\* The float  w.f  (one fractional digit), negative when neg.
PyFloat(neg, w, f) == [t |-> "float", neg |-> neg, w |-> w, f |-> f]
List(items) == [t |-> "list", items |-> items]
Dict(o) == [t |-> "dict", o |-> o]
EmptyDict == Dict(<<>>)

\* The outcome of evaluating a Python expression: a value or an exception.
Ok(v) == [ok |-> TRUE, val |-> v]
Err(e) == [ok |-> FALSE, exc |-> e]

\* rs is a tuple of outcomes evaluated left to right: the first exception, or
\* the tuple of the values.
Gather(rs) ==
    IF \A i \in DOMAIN rs : rs[i].ok
    THEN Ok([i \in DOMAIN rs |-> rs[i].val])
    ELSE rs[CHOOSE i \in DOMAIN rs : ~rs[i].ok /\ \A j \in 1..(i - 1) : rs[j].ok]

\* value[key]
Index(value, key) ==
    IF value.t = "dict"
    THEN IF key \in DOMAIN value.o THEN Ok(value.o[key]) ELSE Err("KeyError")
    ELSE Err("TypeError")

\* value.get(key, default)
Get(value, key, default) ==
    IF value.t = "dict"
    THEN Ok(IF key \in DOMAIN value.o THEN value.o[key] ELSE default)
    ELSE Err("AttributeError")

\* bool(value)
Truthy(value) ==
    CASE value.t = "none" -> FALSE
      [] value.t = "str" -> value.s # ""
      [] value.t = "int" -> value.w # 0
      [] value.t = "float" -> value.w # 0 \/ value.f # 0
      [] value.t = "list" -> value.items # <<>>
      [] value.t = "dict" -> DOMAIN value.o # {}

Digits == <<"0", "1", "2", "3", "4", "5", "6", "7", "8", "9">>

RECURSIVE NatStr(_)
NatStr(n) == IF n < 10 THEN Digits[n + 1] ELSE NatStr(n \div 10) \o Digits[(n % 10) + 1]

\* str(value), as an f-string formats it.
PyStr(value) ==
    CASE value.t = "none" -> "None"
      [] value.t = "str" -> value.s
      [] value.t = "int" -> (IF value.neg THEN "-" ELSE "") \o NatStr(value.w)
      [] value.t = "float" ->
            (IF value.neg THEN "-" ELSE "") \o NatStr(value.w) \o "." \o NatStr(value.f)

\* json.dumps(value), for the values a contributors field holds.
RECURSIVE JoinDumps(_)
RECURSIVE json_dumps(_)
JoinDumps(items) ==
    IF items = <<>> THEN ""
    ELSE IF Len(items) = 1 THEN json_dumps(items[1])
    ELSE json_dumps(items[1]) \o ", " \o JoinDumps(Tail(items))
json_dumps(value) ==
    CASE value.t = "none" -> "null"
      [] value.t = "str" -> "\"" \o value.s \o "\""
      [] value.t = "int" -> PyStr(value)
      [] value.t = "float" -> PyStr(value)
      [] value.t = "list" -> "[" \o JoinDumps(value.items) \o "]"

null_checker(value) ==
    IF value = Str("NULL") \/ value = None \/ value = Str("") THEN None ELSE value

NullChecked(r) == IF r.ok THEN Ok(null_checker(r.val)) ELSE r

\* ------------------------------------------------------------ the store
\* A table is the sequence of its rows in rowid order; a row is the tuple of
\* its column values.  pk is the position of the PRIMARY KEY column, aff the
\* declared type affinity of each column.
Schema ==
    [USER |-> [pk |-> 1, aff |-> <<"TEXT", "TEXT", "TEXT", "TEXT", "INTEGER">>],
     GEO |-> [pk |-> 1, aff |-> <<"TEXT", "TEXT", "REAL", "REAL">>],
     TWEET |-> [pk |-> 2,
                aff |-> <<"TEXT", "TEXT", "TEXT", "TEXT", "TEXT", "TEXT", "TEXT",
                          "INTEGER", "TEXT", "TEXT", "TEXT">>]]

Tables == {"USER", "GEO", "TWEET"}

\* The database after create_tables on a new file.
EmptyStore == [USER |-> <<>>, GEO |-> <<>>, TWEET |-> <<>>]

\* SQLite's conversion of a bound value to the column's affinity.  Text that
\* does not look like a number is stored as text whatever the affinity.
Affinity(aff, value) ==
    CASE value.t = "int" /\ aff = "TEXT" -> Str(PyStr(value))
      [] value.t = "float" /\ aff = "TEXT" -> Str(PyStr(value))
      [] value.t = "int" /\ aff = "REAL" -> PyFloat(value.neg, value.w, 0)
      [] value.t = "float" /\ aff = "INTEGER" /\ value.f = 0 ->
            [t |-> "int", neg |-> value.neg, w |-> value.w]
      [] OTHER -> value

\* The sqlite3 module binds None, str, int and float.
Bindable(value) == value.t \in {"none", "str", "int", "float"}

\* INSERT OR IGNORE of one row: a row whose primary key equals that of a stored
\* row is ignored.  NULL equals no key: a row with a NULL key is always added.
InsertOrIgnore(rows, row, pk) ==
    IF row[pk] # None /\ \E i \in DOMAIN rows : rows[i][pk] = row[pk]
    THEN rows
    ELSE Append(rows, row)

\* The row SQLite stores for the bound parameters.
StoredRow(table, params) ==
    [i \in DOMAIN params |-> Affinity(Schema[table].aff[i], params[i])]

\* cursor.execute(insert_<table>, params) on the store: the store after it, or
\* the exception.
Execute(store, table, params) ==
    IF \E i \in DOMAIN params : ~Bindable(params[i])
    THEN Err("sqlite3.Error")
    ELSE Ok([store EXCEPT ![table] =
                InsertOrIgnore(@, StoredRow(table, params), Schema[table].pk)])

\* cursor.executemany(insert_<table>, batch)
RECURSIVE Executemany(_, _, _)
Executemany(store, table, batch) ==
    IF batch = <<>> THEN Ok(store)
    ELSE LET r == Execute(store, table, Head(batch))
         IN IF r.ok THEN Executemany(r.val, table, Tail(batch)) ELSE r

\* ------------------------------------------------------------ input lines
\* A line is text json.loads rejects, or text json.loads decodes to v.
BadLine(raw) == [t |-> "text", raw |-> raw]
JsonLine(v) == [t |-> "json", v |-> v]

\* json.loads(line)
json_loads(line) ==
    IF line.t = "json" THEN Ok(line.v) ELSE Err("JSONDecodeError")

\* line.strip() is empty: the rejected texts that are whitespace only.
IsBlank(line) == line.t = "text" /\ line.raw \in {"", " "}

\* ------------------------------------------------------------ normalisation
\* The records of this model hold a geo that is None, a number, a list or a
\* dict, and coordinates that are None, a number or a list.

\* "coordinates" in geo
HasCoordinates(geo) ==
    CASE geo.t = "dict" -> Ok("coordinates" \in DOMAIN geo.o)
      [] geo.t = "list" -> Ok(\E i \in DOMAIN geo.items : geo.items[i] = Str("coordinates"))
      [] geo.t \in {"int", "float"} -> Err("TypeError")

\* all(isinstance(coord, (int, float)) for coord in coordinates)
AllNumeric(coordinates) ==
    CASE coordinates.t = "list" ->
            Ok(\A i \in DOMAIN coordinates.items :
                  coordinates.items[i].t \in {"int", "float"})
      [] coordinates.t \in {"none", "int", "float"} -> Err("TypeError")

\* longitude, latitude = coordinates
Unpack2(coordinates) ==
    CASE coordinates.t = "list" ->
            IF Len(coordinates.items) = 2 THEN Ok(coordinates.items) ELSE Err("ValueError")
      [] coordinates.t \in {"none", "int", "float"} -> Err("TypeError")

\* geo_id = f"{longitude}_{latitude}" and the GEO parameters.
GeoOf(pair) ==
    LET geo_id == Str(PyStr(pair[1]) \o "_" \o PyStr(pair[2]))
    IN [geo_id |-> geo_id, writes |-> << <<geo_id, Str("Point"), pair[1], pair[2]>> >>]

NoGeo == [geo_id |-> None, writes |-> <<>>]

\* populate_tables_web_1B: the USER parameters of a decoded line.
user_tuple_1B(tweet) ==
    LET user == Get(tweet, "user", EmptyDict)
    IN IF ~user.ok THEN user
       ELSE Gather(<<NullChecked(Get(user.val, "id_str", None)),
                     NullChecked(Get(user.val, "name", None)),
                     NullChecked(Get(user.val, "screen_name", None)),
                     NullChecked(Get(user.val, "description", None)),
                     NullChecked(Get(user.val, "friends_count", None))>>)

\* populate_tables_web_1B: geo_id and the GEO write of a decoded line, if any.
geo_tuple_1B(tweet) ==
    LET geo == Get(tweet, "geo", None)
    IN IF ~geo.ok THEN geo
       ELSE IF ~Truthy(geo.val) THEN Ok(NoGeo)
       ELSE LET has == HasCoordinates(geo.val)
            IN IF ~has.ok THEN has
               ELSE IF ~has.val THEN Ok(NoGeo)
               ELSE LET coordinates == Index(geo.val, "coordinates")
                    IN IF ~coordinates.ok THEN coordinates
                       ELSE LET numeric == AllNumeric(coordinates.val)
                            IN IF ~numeric.ok THEN numeric
                               ELSE IF ~numeric.val THEN Ok(NoGeo)
                               ELSE LET pair == Unpack2(coordinates.val)
                                    IN IF ~pair.ok THEN pair ELSE Ok(GeoOf(pair.val))

\* populate_tables_web_1B: the TWEET parameters of a decoded line.
tweet_tuple_1B(tweet, geo_id) ==
    LET user == Get(tweet, "user", EmptyDict)
        contributors == Get(tweet, "contributors", None)
    IN IF ~user.ok THEN user
       ELSE Gather(<<NullChecked(Get(tweet, "created_at", None)),
                     NullChecked(Get(tweet, "id_str", None)),
                     NullChecked(Get(tweet, "text", None)),
                     NullChecked(Get(tweet, "source", None)),
                     NullChecked(Get(tweet, "in_reply_to_user_id_str", None)),
                     NullChecked(Get(tweet, "in_reply_to_screen_name", None)),
                     NullChecked(Get(tweet, "in_reply_to_status_id_str", None)),
                     NullChecked(Get(tweet, "retweet_count", None)),
                     IF contributors.ok THEN Ok(Str(json_dumps(contributors.val)))
                     ELSE contributors,
                     Get(user.val, "id_str", None),
                     Ok(geo_id)>>)

\* populate_tables_txt_1C: the USER parameters of a decoded line.
user_tuple_1C(tweet) ==
    LET user == Index(tweet, "user")
    IN IF ~user.ok THEN user
       ELSE Gather(<<NullChecked(Index(user.val, "id_str")),
                     NullChecked(Index(user.val, "name")),
                     NullChecked(Index(user.val, "screen_name")),
                     NullChecked(Index(user.val, "description")),
                     NullChecked(Index(user.val, "friends_count"))>>)

\* populate_tables_txt_1C: geo_id and the GEO write of a decoded line, if any.
geo_tuple_1C(tweet) ==
    LET geo == Get(tweet, "geo", None)
    IN IF ~geo.ok THEN geo
       ELSE IF ~Truthy(geo.val) THEN Ok(NoGeo)
       ELSE LET coordinates == Index(geo.val, "coordinates")
            IN IF ~coordinates.ok THEN coordinates
               ELSE LET pair == Unpack2(coordinates.val)
                    IN IF ~pair.ok THEN pair ELSE Ok(GeoOf(pair.val))

\* populate_tables_txt_1C: the TWEET parameters of a decoded line.
tweet_tuple_1C(tweet, geo_id) ==
    LET user == Index(tweet, "user")
        contributors == Get(tweet, "contributors", List(<<>>))
    IN IF ~user.ok THEN user
       ELSE Gather(<<NullChecked(Index(tweet, "created_at")),
                     NullChecked(Index(tweet, "id_str")),
                     NullChecked(Index(tweet, "text")),
                     NullChecked(Index(tweet, "source")),
                     NullChecked(Get(tweet, "in_reply_to_user_id_str", None)),
                     NullChecked(Get(tweet, "in_reply_to_screen_name", None)),
                     NullChecked(Get(tweet, "in_reply_to_status_id_str", None)),
                     NullChecked(Index(tweet, "retweet_count")),
                     IF contributors.ok THEN Ok(Str(json_dumps(contributors.val)))
                     ELSE contributors,
                     Index(user.val, "id_str"),
                     Ok(geo_id)>>)

\* batch_insert_data_1D: the USER parameters of a decoded line.
user_tuple_1D(tweet) ==
    LET user == Index(tweet, "user")
    IN IF ~user.ok THEN user
       ELSE Gather(<<NullChecked(Index(user.val, "id_str")),
                     NullChecked(Index(user.val, "name")),
                     NullChecked(Index(user.val, "screen_name")),
                     NullChecked(Index(user.val, "description")),
                     NullChecked(Index(user.val, "friends_count"))>>)

\* batch_insert_data_1D: geo_id and the GEO tuple of a decoded line, if any.
geo_tuple_1D(tweet) ==
    LET geo == Get(tweet, "geo", None)
    IN IF ~geo.ok THEN geo
       ELSE IF ~Truthy(geo.val) THEN Ok(NoGeo)
       ELSE LET coordinates == Index(geo.val, "coordinates")
            IN IF ~coordinates.ok THEN coordinates
               ELSE LET pair == Unpack2(coordinates.val)
                    IN IF ~pair.ok THEN pair ELSE Ok(GeoOf(pair.val))

\* batch_insert_data_1D: the TWEET parameters of a decoded line.
tweet_tuple_1D(tweet, geo_id) ==
    LET user == Index(tweet, "user")
        contributors == Get(tweet, "contributors", None)
    IN IF ~user.ok THEN user
       ELSE Gather(<<NullChecked(Index(tweet, "created_at")),
                     NullChecked(Index(tweet, "id_str")),
                     NullChecked(Index(tweet, "text")),
                     NullChecked(Index(tweet, "source")),
                     NullChecked(Get(tweet, "in_reply_to_user_id_str", None)),
                     NullChecked(Get(tweet, "in_reply_to_screen_name", None)),
                     NullChecked(Get(tweet, "in_reply_to_status_id_str", None)),
                     NullChecked(Index(tweet, "retweet_count")),
                     IF contributors.ok THEN Ok(Str(json_dumps(contributors.val)))
                     ELSE contributors,
                     Index(user.val, "id_str"),
                     Ok(geo_id)>>)

\* ------------------------------------------------------------ inputs
User1 ==
    [id_str |-> Str("u1"), name |-> Str("Ann"), screen_name |-> Str("ann"),
     description |-> Str("d"), friends_count |-> PyInt(1)]

Point(longitude, latitude) ==
    Dict([type |-> Str("Point"), coordinates |-> List(<<longitude, latitude>>)])

\* A complete record: every key the strategies read, a two-element numeric geo.
Tweet1 ==
    [created_at |-> Str("Mon"), id_str |-> Str("t1"), text |-> Str("hi"),
     source |-> Str("web"), in_reply_to_user_id_str |-> None,
     in_reply_to_screen_name |-> None, in_reply_to_status_id_str |-> None,
     retweet_count |-> PyInt(0), contributors |-> None, user |-> Dict(User1),
     geo |-> Point(PyFloat(FALSE, 10, 0), PyFloat(FALSE, 20, 0))]

\* The record r without key k.
Without(r, k) == [x \in DOMAIN r \ {k} |-> r[x]]

\* A second post of the same actor at the same coordinates, the actor renamed.
Tweet2 ==
    [Tweet1 EXCEPT !.id_str = Str("t2"),
                   !.user = Dict([User1 EXCEPT !.name = Str("Bob")])]

\* A third post whose non-key attributes are "NULL", "" or null; no location.
Tweet3 ==
    [Tweet1 EXCEPT !.id_str = Str("t3"), !.created_at = None, !.text = Str(""),
                   !.source = Str("NULL"), !.geo = None,
                   !.user = Dict([id_str |-> Str("u2"), name |-> Str("NULL"),
                                  screen_name |-> Str(""), description |-> None,
                                  friends_count |-> None])]

\* Records that are complete and carry no geo or a two-element numeric geo.
CompleteRecords == {JsonLine(Dict(Tweet1)), JsonLine(Dict(Tweet2)), JsonLine(Dict(Tweet3))}

\* Decodable lines that are not complete records.
PartialRecords ==
    {JsonLine(Dict(Without(Tweet1, "contributors"))),
     JsonLine(Dict([Tweet1 EXCEPT !.user = Dict([User1 EXCEPT !.id_str = Str("NULL")])])),
     JsonLine(Dict(Without(Tweet1, "id_str"))),
     JsonLine(Dict([Tweet1 EXCEPT !.id_str = None])),
     JsonLine(Dict(Without(Tweet1, "text"))),
     JsonLine(Dict(Without(Tweet1, "user"))),
     JsonLine(Dict([Tweet1 EXCEPT !.geo = Dict([coordinates |-> List(<<Str("a"), Str("b")>>)])])),
     JsonLine(Dict([Tweet1 EXCEPT !.geo = Dict([coordinates |-> List(<<PyFloat(FALSE, 10, 0)>>)])])),
     JsonLine(PyInt(5))}

\* A fourth post at the coordinates of the first, written as integers.
Tweet4 ==
    [Tweet1 EXCEPT !.id_str = Str("t4"), !.geo = Point(PyInt(10), PyInt(20))]

\* Complete records whose coordinates are integers.
IntegerRecords == {JsonLine(Dict(Tweet4))}

\* Lines json.loads rejects: broken text and a blank line.
RejectedLines == {BadLine("{bad"), BadLine("")}

LineCatalog == CompleteRecords \cup IntegerRecords \cup PartialRecords \cup RejectedLines

Inputs == UNION {[1..n -> LineCatalog] : n \in 0..MaxLines}

Strategies == {"1B", "1C", "1D"}
DBs == {"db_txt", "db_batch"}

\* ------------------------------------------------------------ text of a line
\* The text of a line is the sequence of its characters.  The lines of part 2
\* carry their text next to the value json.loads gives for it.
Quote == "\""

\* The characters of the keys and of the strings of the records of part 2.
Spelling ==
    [id_str |-> <<"i", "d", "_", "s", "t", "r">>,
     user |-> <<"u", "s", "e", "r">>,
     geo |-> <<"g", "e", "o">>,
     coordinates |-> <<"c", "o", "o", "r", "d", "i", "n", "a", "t", "e", "s">>]
    @@ [d \in {Digits[i] : i \in DOMAIN Digits} |-> <<d>>]

RECURSIVE NatChars(_)
NatChars(k) ==
    IF k < 10 THEN <<Digits[k + 1]>> ELSE NatChars(k \div 10) \o <<Digits[(k % 10) + 1]>>

\* How a JSON text is laid out: the characters between a key and a value that
\* is a list (bracket) or any other value (colon), between two members or items
\* (comma), and the order of the keys.
Compact ==
    [colon |-> <<":">>, bracket |-> <<":">>, comma |-> <<",">>,
     order |-> <<"id_str", "user", "geo", "coordinates">>]
Spaced ==
    [colon |-> <<":", " ">>, bracket |-> <<":", " ">>, comma |-> <<",", " ">>,
     order |-> <<"id_str", "user", "geo", "coordinates">>]
Mixed == [Spaced EXCEPT !.bracket = <<":">>]
MixedUserFirst == [Mixed EXCEPT !.order = <<"user", "id_str", "geo", "coordinates">>]

\* The keys of o, in the order of the layout.
RECURSIVE KeysIn(_, _)
KeysIn(order, o) ==
    IF order = <<>> THEN <<>>
    ELSE (IF Head(order) \in DOMAIN o THEN <<Head(order)>> ELSE <<>>)
         \o KeysIn(Tail(order), o)

\* The JSON text of a value in a layout.
RECURSIVE RenderValue(_, _)
RECURSIVE RenderItems(_, _)
RECURSIVE RenderMembers(_, _, _)
RenderValue(value, layout) ==
    CASE value.t = "none" -> <<"n", "u", "l", "l">>
      [] value.t = "str" -> <<Quote>> \o Spelling[value.s] \o <<Quote>>
      [] value.t = "int" -> (IF value.neg THEN <<"-">> ELSE <<>>) \o NatChars(value.w)
      [] value.t = "float" ->
            (IF value.neg THEN <<"-">> ELSE <<>>)
            \o NatChars(value.w) \o <<".">> \o NatChars(value.f)
      [] value.t = "list" -> <<"[">> \o RenderItems(value.items, layout) \o <<"]">>
      [] value.t = "dict" ->
            <<"{">>
            \o RenderMembers(value.o, KeysIn(layout.order, value.o), layout)
            \o <<"}">>
RenderItems(items, layout) ==
    IF items = <<>> THEN <<>>
    ELSE RenderValue(Head(items), layout)
         \o (IF Len(items) = 1 THEN <<>>
             ELSE layout.comma \o RenderItems(Tail(items), layout))
RenderMembers(o, keys, layout) ==
    IF keys = <<>> THEN <<>>
    ELSE <<Quote>> \o Spelling[Head(keys)] \o <<Quote>>
         \o (IF o[Head(keys)].t = "list" THEN layout.bracket ELSE layout.colon)
         \o RenderValue(o[Head(keys)], layout)
         \o (IF Len(keys) = 1 THEN <<>>
             ELSE layout.comma \o RenderMembers(o, Tail(keys), layout))

\* A line of text that json.loads decodes to v, and one it rejects.
TextLine(v, layout) == [t |-> "json", v |-> v, text |-> RenderValue(v, layout)]
BadText == [t |-> "text", raw |-> "{bad", text |-> <<"{", "b", "a", "d">>]

\* ------------------------------------------------------------ patterns
IsDigit(c) == \E i \in DOMAIN Digits : Digits[i] = c
IsSpace(c) == c \in {" ", "\t"}

\* text has the characters of literal from position i on.
LiteralAt(text, i, literal) ==
    /\ i + Len(literal) - 1 <= Len(text)
    /\ \A k \in DOMAIN literal : text[i + k - 1] = literal[k]

\* The number of digits, and of whitespace characters, that text holds in a
\* row from i on.
DigitRun(text, i) ==
    CHOOSE r \in 0..(Len(text) + 1 - i) :
        /\ \A k \in 0..(r - 1) : IsDigit(text[i + k])
        /\ i + r > Len(text) \/ ~IsDigit(text[i + r])
SpaceRun(text, i) ==
    CHOOSE r \in 0..(Len(text) + 1 - i) :
        /\ \A k \in 0..(r - 1) : IsSpace(text[i + k])
        /\ i + r > Len(text) \/ ~IsSpace(text[i + r])

\* "".join(chars)
RECURSIVE Join(_)
Join(chars) == IF chars = <<>> THEN "" ELSE Head(chars) \o Join(Tail(chars))

RECURSIVE NatOf(_, _)
NatOf(digits, acc) ==
    IF digits = <<>> THEN acc
    ELSE NatOf(Tail(digits),
               10 * acc + (CHOOSE d \in 0..9 : Digits[d + 1] = Head(digits)))

\* float(chars), for texts of digits with at most one "." followed by one
\* digit; any other text the patterns can capture is no number.
float(chars) ==
    LET w == DigitRun(chars, 1)
    IN IF w >= 1 /\ w = Len(chars)
       THEN Ok(PyFloat(FALSE, NatOf(chars, 0), 0))
       ELSE IF /\ w >= 1 /\ Len(chars) = w + 2
               /\ chars[w + 1] = "." /\ IsDigit(chars[w + 2])
       THEN Ok(PyFloat(FALSE, NatOf(SubSeq(chars, 1, w), 0),
                       NatOf(SubSeq(chars, w + 2, w + 2), 0)))
       ELSE Err("ValueError")

NoMatch == [matched |-> FALSE]

\* user_id_pattern = re.compile(r'"id_str": "(\d+)"')
IdStrPrefix == <<Quote>> \o Spelling["id_str"] \o <<Quote, ":", " ", Quote>>

\* user_id_pattern matches at i: after the literal, the digits in a row,
\* then the closing quote.
MatchesUserIdAt(text, i) ==
    LET j == i + Len(IdStrPrefix)
        r == DigitRun(text, j)
    IN /\ LiteralAt(text, i, IdStrPrefix)
       /\ r >= 1 /\ j + r <= Len(text) /\ text[j + r] = Quote

\* user_id_pattern.search(text): the leftmost match and its group.
user_id_search(text) ==
    LET starts == {i \in DOMAIN text : MatchesUserIdAt(text, i)}
    IN IF starts = {} THEN NoMatch
       ELSE LET i == CHOOSE x \in starts : \A y \in starts : x <= y
                j == i + Len(IdStrPrefix)
            IN [matched |-> TRUE, groups |-> <<SubSeq(text, j, j + DigitRun(text, j) - 1)>>]

\* geo_pattern = re.compile(r'"coordinates":\[\s*(\d+.\d+),\s*(\d+.\d+)\s*\]')
CoordinatesPrefix == <<Quote>> \o Spelling["coordinates"] \o <<Quote, ":", "[">>

\* The ways \d+.\d+ matches from j on: <<a, b>> for a digits, any character
\* but a newline, and b digits.
NumberSpans(text, j) ==
    UNION {{<<a, b>> : b \in 1..DigitRun(text, j + a + 1)} :
              a \in {x \in 1..DigitRun(text, j) :
                        j + x <= Len(text) /\ text[j + x] # "\n"}}

AfterSpaces(text, i) == i + SpaceRun(text, i)
AfterNumber(j, span) == j + span[1] + 1 + span[2]

\* The ways geo_pattern matches at i: the spans of its two groups.
GeoMatchesAt(text, i) ==
    IF ~LiteralAt(text, i, CoordinatesPrefix) THEN {}
    ELSE LET j == AfterSpaces(text, i + Len(CoordinatesPrefix))
             Second(first) == AfterSpaces(text, AfterNumber(j, first) + 1)
         IN UNION {{<<first, second>> :
                       second \in {y \in NumberSpans(text, Second(first)) :
                          LET m == AfterSpaces(text, AfterNumber(Second(first), y))
                          IN m <= Len(text) /\ text[m] = "]"}} :
                     first \in {x \in NumberSpans(text, j) :
                          /\ AfterNumber(j, x) <= Len(text)
                          /\ text[AfterNumber(j, x)] = ","}}

\* The order in which the matcher tries them: each \d+ takes the most digits
\* it can first, the earlier ones before the later ones.
Preferred(m, o) ==
    LET x == <<m[1][1], m[1][2], m[2][1], m[2][2]>>
        y == <<o[1][1], o[1][2], o[2][1], o[2][2]>>
    IN x = y \/ \E k \in 1..4 : x[k] > y[k] /\ \A h \in 1..(k - 1) : x[h] = y[h]

\* geo_pattern.search(text): the leftmost match and its two groups.
geo_search(text) ==
    LET starts == {i \in DOMAIN text : GeoMatchesAt(text, i) # {}}
    IN IF starts = {} THEN NoMatch
       ELSE LET i == CHOOSE x \in starts : \A y \in starts : x <= y
                j == AfterSpaces(text, i + Len(CoordinatesPrefix))
                m == CHOOSE x \in GeoMatchesAt(text, i) :
                        \A y \in GeoMatchesAt(text, i) : Preferred(x, y)
                k == AfterSpaces(text, AfterNumber(j, m[1]) + 1)
            IN [matched |-> TRUE,
                groups |-> <<SubSeq(text, j, AfterNumber(j, m[1]) - 1),
                             SubSeq(text, k, AfterNumber(k, m[2]) - 1)>>]

\* ------------------------------------------------------------ inputs of part 2
\* A post with an actor and a location, reduced to the keys part 2 reads.
Post(id, actor, geo) ==
    Dict([id_str |-> Str(id), user |-> Dict([id_str |-> Str(actor)]), geo |-> geo])

Located(longitude, latitude) == Dict([coordinates |-> List(<<longitude, latitude>>)])

\* Post 7 of actor 1, at (1.5, 2.5).
Post7 == Post("7", "1", Located(PyFloat(FALSE, 1, 5), PyFloat(FALSE, 2, 5)))
\* A line with the same post id and other coordinates.
Post7Moved == Post("7", "1", Located(PyFloat(FALSE, 3, 5), PyFloat(FALSE, 2, 5)))
\* Post 8 of actor 2, at a negative longitude.
Post8 == Post("8", "2", Located(PyFloat(TRUE, 1, 5), PyFloat(FALSE, 2, 5)))
\* Post 9 of actor 1, at integer coordinates.
Post9 == Post("9", "1", Located(PyInt(10), PyInt(20)))
\* Post 6 of actor 2, without location.
Post6 == Post("6", "2", None)
\* Post 5, located, without a user.
Post5 ==
    Dict([id_str |-> Str("5"),
          geo |-> Located(PyFloat(FALSE, 1, 5), PyFloat(FALSE, 2, 5))])

TextCatalog ==
    {TextLine(Post7, layout) : layout \in {Compact, Spaced, Mixed, MixedUserFirst}}
    \cup {TextLine(v, MixedUserFirst) : v \in {Post7Moved, Post8, Post9, Post6, Post5}}
    \cup {BadText}

TextInputs == UNION {[1..m -> TextCatalog] : m \in 0..MaxLines}

\* ------------------------------------------------------------ state
VARIABLES
    lines,               \* the lines of the response / of the file at path_name
    disk,                \* the committed content of each database file
    history,             \* per database, the invocations that have ended on it
    pc,                  \* where the running invocation stands
    strategy,            \* the function invoked
    db,                  \* its db argument
    total_tweets,        \* its total_tweets argument
    batch_size,          \* its batch_size argument (1D)
    conn,                \* the database as the open connection sees it
    pos,                 \* the position of the line iterator
    tweets_processed,
    errors_encountered,  \* 1C and 1D; 1B keeps no such counter
    geo_id,
    users_batch,
    geo_batch,
    tweets_batch,
    exc,                 \* the exception that left the invocation, "" if none
    url,                 \* the lines the server at url holds
    files,               \* the local text files, by path
    path_name,           \* the path_name argument (1A, 1C, 1D)
    transport,           \* what the invocation's request or open met: "ok" or an error
    line_count,          \* 1A
    main_pc,             \* main: the call of the sweep it stands at
    volume,              \* main: the position of number_of_tweets in tweet_counts
    runtimes,            \* main: runtime_to_file, runtime_from_web, ... of this volume
    runtime_results,     \* main
    main_exc,            \* the exception that left main, "" if none
    iteration_counts,    \* the iteration_counts argument (2B, 2C, 2E)
    outer,               \* the position of the outer for loop in iteration_counts
    inner,               \* 2B: the position of the inner for loop in iteration_counts
    count,
    iterations,          \* 2C, 2E: the value of the loop over range(count)
    executed,            \* 2B: the queries executed since start_time was taken
    iteration_results,   \* the runtime_results of 2B, 2C and 2E
    cursor,              \* 2B: the rows of the last query executed
    user_geo_data,       \* 2C
    user_location_data   \* 2E

\* The web and the file system, the locals of save_first_n_tweets_to_file_1A,
\* and the locals of main.
stream == <<url, files, path_name, transport, line_count>>
driver == <<main_pc, volume, runtimes, runtime_results, main_exc>>
part2 ==
    <<iteration_counts, outer, inner, count, iterations, executed, iteration_results,
      cursor, user_geo_data, user_location_data>>
others == <<stream, driver, part2>>

vars ==
    <<lines, disk, history, pc, strategy, db, total_tweets, batch_size, conn, pos,
      tweets_processed, errors_encountered, geo_id, users_batch, geo_batch,
      tweets_batch, exc, others>>

locals == <<pos, tweets_processed, errors_encountered, geo_id, users_batch, geo_batch, tweets_batch>>
call == <<strategy, db, total_tweets, batch_size>>

\* ------------------------------------------------------------ files
\* A file's content is the sequence of what was written to it: lines and
\* newline characters.
NL == [t |-> "newline"]
NoFile == [exists |-> FALSE, content |-> <<>>]
File(content) == [exists |-> TRUE, content |-> content]

\* f"first_{number_of_tweets}_tweets.txt"
PathOf(number_of_tweets) == "first_" \o NatStr(number_of_tweets) \o "_tweets.txt"
Paths == {PathOf(k) : k \in 0..MaxTarget}

\* The lines iterating over an open text file yields: the text between the
\* newlines.  Two lines written with no newline between them read as one line,
\* which json.loads rejects.
RECURSIVE SplitLines(_, _)
SplitLines(content, run) ==
    LET line == IF run = <<>> THEN BadLine("")
                ELSE IF Len(run) = 1 THEN run[1]
                ELSE BadLine("joined")
    IN IF content = <<>> THEN (IF run = <<>> THEN <<>> ELSE <<line>>)
       ELSE IF Head(content) = NL THEN <<line>> \o SplitLines(Tail(content), <<>>)
       ELSE SplitLines(Tail(content), Append(run, Head(content)))

\* No function of part 2 has been called.
Part2Off ==
    /\ iteration_counts = <<>>
    /\ outer = 1
    /\ inner = 1
    /\ count = 0
    /\ iterations = 0
    /\ executed = 0
    /\ iteration_results = <<>>
    /\ cursor = <<>>
    /\ user_geo_data = <<>>
    /\ user_location_data = <<>>

\* The state of what the ingestion strategies do not touch, when a strategy is
\* invoked on its own: the source holds the input, main is not running.
Standalone ==
    /\ url = lines
    /\ files = [p \in Paths |-> NoFile]
    /\ path_name = PathOf(0)
    /\ transport = "ok"
    /\ line_count = 0
    /\ main_pc = "off"
    /\ volume = 1
    /\ runtimes = <<>>
    /\ runtime_results = <<>>
    /\ main_exc = ""
    /\ Part2Off

\* No invocation has been made.
NotInvoked ==
    /\ pc = "idle"
    /\ strategy = "1C"
    /\ total_tweets = 0
    /\ batch_size = 0
    /\ pos = 1
    /\ tweets_processed = 0
    /\ errors_encountered = 0
    /\ geo_id = None
    /\ users_batch = <<>>
    /\ geo_batch = <<>>
    /\ tweets_batch = <<>>
    /\ exc = ""

Init ==
    /\ lines \in Inputs
    /\ disk = [d \in DBs |-> EmptyStore]
    /\ history = [d \in DBs |-> <<>>]
    /\ conn = EmptyStore
    /\ db = "db_txt"
    /\ NotInvoked
    /\ Standalone

RECURSIVE SumLen(_, _)
SumLen(f, S) ==
    IF S = {} THEN 0
    ELSE LET d == CHOOSE x \in S : TRUE IN Len(f[d]) + SumLen(f, S \ {d})

Ended(outcome) ==
    [strategy |-> strategy, total_tweets |-> total_tweets, batch_size |-> batch_size,
     outcome |-> outcome]

\* An exception leaves the function: the open transaction is never committed
\* (the with block of 1C and 1D rolls it back; 1B's connection is dropped).
Raise(e) ==
    /\ pc' = "raised"
    /\ exc' = e
    /\ conn' = disk[db]
    /\ history' = [history EXCEPT ![db] = Append(@, Ended(e))]
    /\ UNCHANGED <<lines, disk, call>>

\* Strategy s is entered with database d, target k and batch size b: its
\* locals are initialised and it stands at step first.
Enter(s, d, k, b, first) ==
    /\ strategy' = s
    /\ db' = d
    /\ total_tweets' = k
    /\ batch_size' = b
    /\ conn' = disk[d]
    /\ pos' = 1
    /\ tweets_processed' = 0
    /\ errors_encountered' = 0
    /\ geo_id' = None
    /\ users_batch' = <<>>
    /\ geo_batch' = <<>>
    /\ tweets_batch' = <<>>
    /\ exc' = ""
    /\ pc' = first
    /\ UNCHANGED <<disk, history>>

\* A caller invokes strategy s on database d; the source is available and
\* holds lines.
Start(s, d, n, b) ==
    /\ pc \in {"idle", "done", "raised"}
    /\ SumLen(history, DBs) < MaxRuns
    /\ Enter(s, d, n, b, "loop")
    /\ UNCHANGED <<others, lines>>

\* The for loop ends: no line is left, or the target is reached.
LoopEnds == pos > Len(lines) \/ tweets_processed >= total_tweets

\* populate_tables_web_1B: one line up to the USER insert.
ReadLine_1B ==
    /\ pc = "loop" /\ strategy = "1B"
    /\ IF LoopEnds
       THEN /\ pc' = "commit"
            /\ UNCHANGED <<others, lines, disk, history, call, conn, locals, exc>>
       ELSE IF IsBlank(lines[pos]) \/ ~json_loads(lines[pos]).ok
       THEN /\ pos' = pos + 1
            /\ UNCHANGED <<others, lines, disk, history, call, conn, pc, tweets_processed,
                           errors_encountered, geo_id, users_batch, geo_batch,
                           tweets_batch, exc>>
       ELSE LET user_tuple == user_tuple_1B(json_loads(lines[pos]).val)
                written == Execute(conn, "USER", user_tuple.val)
            IN IF ~user_tuple.ok THEN Raise(user_tuple.exc) /\ UNCHANGED <<others, locals>>
               ELSE IF ~written.ok THEN Raise(written.exc) /\ UNCHANGED <<others, locals>>
               ELSE /\ conn' = written.val
                    /\ pc' = "geo"
                    /\ UNCHANGED <<others, lines, disk, history, call, locals, exc>>

\* populate_tables_web_1B: the geo test and the GEO insert.
InsertGeo_1B ==
    /\ pc = "geo" /\ strategy = "1B"
    /\ LET geo == geo_tuple_1B(json_loads(lines[pos]).val)
           written == Executemany(conn, "GEO", geo.val.writes)
       IN IF ~geo.ok THEN Raise(geo.exc) /\ UNCHANGED <<others, locals>>
          ELSE IF ~written.ok THEN Raise(written.exc) /\ UNCHANGED <<others, locals>>
          ELSE /\ conn' = written.val
               /\ geo_id' = geo.val.geo_id
               /\ pc' = "tweet"
               /\ UNCHANGED <<others, lines, disk, history, call, pos, tweets_processed,
                              errors_encountered, users_batch, geo_batch,
                              tweets_batch, exc>>

\* populate_tables_web_1B: the TWEET insert and the count.
InsertTweet_1B ==
    /\ pc = "tweet" /\ strategy = "1B"
    /\ LET tweet_tuple == tweet_tuple_1B(json_loads(lines[pos]).val, geo_id)
           written == Execute(conn, "TWEET", tweet_tuple.val)
       IN IF ~tweet_tuple.ok THEN Raise(tweet_tuple.exc) /\ UNCHANGED <<others, locals>>
          ELSE IF ~written.ok THEN Raise(written.exc) /\ UNCHANGED <<others, locals>>
          ELSE /\ conn' = written.val
               /\ tweets_processed' = tweets_processed + 1
               /\ pos' = pos + 1
               /\ pc' = "loop"
               /\ UNCHANGED <<others, lines, disk, history, call, errors_encountered, geo_id,
                              users_batch, geo_batch, tweets_batch, exc>>

\* populate_tables_txt_1C: one line up to the USER insert.
ReadLine_1C ==
    /\ pc = "loop" /\ strategy = "1C"
    /\ IF LoopEnds
       THEN /\ pc' = "commit"
            /\ UNCHANGED <<others, lines, disk, history, call, conn, locals, exc>>
       ELSE IF ~json_loads(lines[pos]).ok
       THEN /\ errors_encountered' = errors_encountered + 1
            /\ pos' = pos + 1
            /\ UNCHANGED <<others, lines, disk, history, call, conn, pc, tweets_processed,
                           geo_id, users_batch, geo_batch, tweets_batch, exc>>
       ELSE LET user_tuple == user_tuple_1C(json_loads(lines[pos]).val)
                written == Execute(conn, "USER", user_tuple.val)
            IN IF ~user_tuple.ok THEN Raise(user_tuple.exc) /\ UNCHANGED <<others, locals>>
               ELSE IF ~written.ok THEN Raise(written.exc) /\ UNCHANGED <<others, locals>>
               ELSE /\ conn' = written.val
                    /\ pc' = "geo"
                    /\ UNCHANGED <<others, lines, disk, history, call, locals, exc>>

\* populate_tables_txt_1C: the geo test and the GEO insert.
InsertGeo_1C ==
    /\ pc = "geo" /\ strategy = "1C"
    /\ LET geo == geo_tuple_1C(json_loads(lines[pos]).val)
           written == Executemany(conn, "GEO", geo.val.writes)
       IN IF ~geo.ok THEN Raise(geo.exc) /\ UNCHANGED <<others, locals>>
          ELSE IF ~written.ok THEN Raise(written.exc) /\ UNCHANGED <<others, locals>>
          ELSE /\ conn' = written.val
               /\ geo_id' = geo.val.geo_id
               /\ pc' = "tweet"
               /\ UNCHANGED <<others, lines, disk, history, call, pos, tweets_processed,
                              errors_encountered, users_batch, geo_batch,
                              tweets_batch, exc>>

\* populate_tables_txt_1C: the TWEET insert and the count.
InsertTweet_1C ==
    /\ pc = "tweet" /\ strategy = "1C"
    /\ LET tweet_tuple == tweet_tuple_1C(json_loads(lines[pos]).val, geo_id)
           written == Execute(conn, "TWEET", tweet_tuple.val)
       IN IF ~tweet_tuple.ok THEN Raise(tweet_tuple.exc) /\ UNCHANGED <<others, locals>>
          ELSE IF ~written.ok THEN Raise(written.exc) /\ UNCHANGED <<others, locals>>
          ELSE /\ conn' = written.val
               /\ tweets_processed' = tweets_processed + 1
               /\ pos' = pos + 1
               /\ pc' = "loop"
               /\ UNCHANGED <<others, lines, disk, history, call, errors_encountered, geo_id,
                              users_batch, geo_batch, tweets_batch, exc>>

\* The flush test made one record late: a batch is flushed once it exceeds size.
BatchFull_Late(users, tweets, size) == Len(users) > size \/ Len(tweets) > size

\* batch_insert_data_1D: the flush test after a record was appended.
BatchFull(users, tweets, size) == Len(users) >= size \/ Len(tweets) >= size

\* The final flush left out: the loop's end leads straight to the commit.
AfterLoop_1D_NoFinalFlush(users, geos, tweets) == "commit"

\* batch_insert_data_1D: where the loop's end leads, given the accumulators.
AfterLoop_1D(users, geos, tweets) ==
    IF users # <<>> \/ geos # <<>> \/ tweets # <<>> THEN "final_user" ELSE "commit"

\* batch_insert_data_1D: one line: decode, append to the three accumulators,
\* count, and test whether to flush.
ReadLine_1D ==
    /\ pc = "loop" /\ strategy = "1D"
    /\ IF LoopEnds
       THEN /\ pc' = AfterLoop_1D(users_batch, geo_batch, tweets_batch)
            /\ UNCHANGED <<others, lines, disk, history, call, conn, locals, exc>>
       ELSE IF ~json_loads(lines[pos]).ok
       THEN /\ errors_encountered' = errors_encountered + 1
            /\ pos' = pos + 1
            /\ UNCHANGED <<others, lines, disk, history, call, conn, pc, tweets_processed,
                           geo_id, users_batch, geo_batch, tweets_batch, exc>>
       ELSE LET tweet == json_loads(lines[pos]).val
                user_tuple == user_tuple_1D(tweet)
                geo == geo_tuple_1D(tweet)
                tweet_tuple == tweet_tuple_1D(tweet, geo.val.geo_id)
            IN IF ~user_tuple.ok THEN Raise(user_tuple.exc) /\ UNCHANGED <<others, locals>>
               ELSE IF ~geo.ok THEN Raise(geo.exc) /\ UNCHANGED <<others, locals>>
               ELSE IF ~tweet_tuple.ok THEN Raise(tweet_tuple.exc) /\ UNCHANGED <<others, locals>>
               ELSE /\ users_batch' = Append(users_batch, user_tuple.val)
                    /\ geo_batch' = geo_batch \o geo.val.writes
                    /\ geo_id' = geo.val.geo_id
                    /\ tweets_batch' = Append(tweets_batch, tweet_tuple.val)
                    /\ tweets_processed' = tweets_processed + 1
                    /\ pos' = pos + 1
                    /\ pc' = IF BatchFull(users_batch', tweets_batch', batch_size)
                             THEN "flush_user" ELSE "loop"
                    /\ UNCHANGED <<others, lines, disk, history, call, conn,
                                   errors_encountered, exc>>

\* batch_insert_data_1D: cursor.executemany(insert_user, users_batch)
FlushUsers_1D ==
    /\ pc \in {"flush_user", "final_user"} /\ strategy = "1D"
    /\ LET written == Executemany(conn, "USER", users_batch)
       IN IF ~written.ok THEN Raise(written.exc) /\ UNCHANGED <<others, locals>>
          ELSE /\ conn' = written.val
               /\ pc' = IF pc = "flush_user" THEN "flush_geo" ELSE "final_geo"
               /\ UNCHANGED <<others, lines, disk, history, call, locals, exc>>

\* batch_insert_data_1D: cursor.executemany(insert_geo, geo_batch)
FlushGeo_1D ==
    /\ pc \in {"flush_geo", "final_geo"} /\ strategy = "1D"
    /\ LET written == Executemany(conn, "GEO", geo_batch)
       IN IF ~written.ok THEN Raise(written.exc) /\ UNCHANGED <<others, locals>>
          ELSE /\ conn' = written.val
               /\ pc' = IF pc = "flush_geo" THEN "flush_tweet" ELSE "final_tweet"
               /\ UNCHANGED <<others, lines, disk, history, call, locals, exc>>

\* batch_insert_data_1D: cursor.executemany(insert_tweet, tweets_batch); inside
\* the loop the three accumulators are then reset.
FlushTweets_1D ==
    /\ pc \in {"flush_tweet", "final_tweet"} /\ strategy = "1D"
    /\ LET written == Executemany(conn, "TWEET", tweets_batch)
       IN IF ~written.ok THEN Raise(written.exc) /\ UNCHANGED <<others, locals>>
          ELSE /\ conn' = written.val
               /\ IF pc = "flush_tweet"
                  THEN /\ users_batch' = <<>>
                       /\ geo_batch' = <<>>
                       /\ tweets_batch' = <<>>
                       /\ pc' = "loop"
                  ELSE /\ pc' = "commit"
                       /\ UNCHANGED <<users_batch, geo_batch, tweets_batch>>
               /\ UNCHANGED <<others, lines, disk, history, call, pos, tweets_processed,
                              errors_encountered, geo_id, exc>>

\* The transaction is committed: conn.commit() in 1B, the exit of the with
\* block in 1C and 1D.
Commit ==
    /\ pc = "commit"
    /\ disk' = [disk EXCEPT ![db] = conn]
    /\ pc' = "close"
    /\ UNCHANGED <<others, lines, history, call, conn, locals, exc>>

\* conn.close() and the return of the runtime (1C and 1D commit once more
\* before it, with nothing left to commit).
Return ==
    /\ pc = "close"
    /\ pc' = "done"
    /\ history' = [history EXCEPT ![db] = Append(@, Ended("returned"))]
    /\ UNCHANGED <<others, lines, disk, call, conn, locals, exc>>

\* ------------------------------------------------------------ 1A
\* The exceptions of requests.RequestException that a request or the reading
\* of its body raises.
RequestExceptions == {"ConnectionError", "HTTPError", "ChunkedEncodingError"}

\* file.write(line + "\n")
Written(line) == <<line, NL>>

\* save_first_n_tweets_to_file_1A(k, url, p) is entered; its n is kept in
\* total_tweets.
Enter_1A(k, p) ==
    /\ Enter("1A", db, k, 0, "request")
    /\ path_name' = p
    /\ transport' = "ok"
    /\ line_count' = 0
    /\ UNCHANGED <<lines, url, files, driver, part2>>

\* requests.get and raise_for_status: the response, whose body is the lines
\* at url, or an exception of requests; then line_count = 0 and the file is
\* opened for writing, which creates or truncates it.
Request_1A ==
    /\ pc = "request" /\ strategy = "1A"
    /\ \E met \in {"ok", "ConnectionError", "HTTPError"} :
          /\ transport' = met
          /\ IF met = "ok"
             THEN /\ lines' = url
                  /\ files' = [files EXCEPT ![path_name] = File(<<>>)]
                  /\ pc' = "iter"
             ELSE /\ pc' = "except"
                  /\ UNCHANGED <<lines, files>>
    /\ UNCHANGED <<disk, history, call, conn, locals, exc, url, path_name,
                   line_count, driver, part2>>

\* One turn of the for loop: the next line is taken from the response, then
\* written and counted if line_count < n, else the loop is left.
Iter_1A ==
    /\ pc = "iter" /\ strategy = "1A"
    /\ IF pos > Len(lines)
       THEN /\ pc' = "finish"
            /\ UNCHANGED <<pos, files, line_count>>
       ELSE /\ pos' = pos + 1
            /\ IF line_count < total_tweets
               THEN /\ files' = [files EXCEPT ![path_name] =
                                    File(@.content \o Written(lines[pos]))]
                    /\ line_count' = line_count + 1
                    /\ pc' = "iter"
               ELSE /\ pc' = "finish"
                    /\ UNCHANGED <<files, line_count>>
    /\ UNCHANGED <<lines, disk, history, call, conn, tweets_processed,
                   errors_encountered, geo_id, users_batch, geo_batch, tweets_batch,
                   exc, url, path_name, transport, driver, part2>>

\* The connection breaks while the next line is read.
Breaks_1A ==
    /\ pc = "iter" /\ strategy = "1A" /\ pos <= Len(lines)
    /\ transport' = "ChunkedEncodingError"
    /\ pc' = "except"
    /\ UNCHANGED <<lines, disk, history, call, conn, locals, exc, url, files,
                   path_name, line_count, driver, part2>>

\* except requests.RequestException: the error is printed.
Except_1A ==
    /\ pc = "except" /\ strategy = "1A"
    /\ pc' = "finish"
    /\ UNCHANGED <<lines, disk, history, call, conn, locals, exc, others>>

\* The runtime is computed, printed and returned.
Return_1A ==
    /\ pc = "finish" /\ strategy = "1A"
    /\ pc' = "done"
    /\ UNCHANGED <<lines, disk, history, call, conn, locals, exc, others>>

\* ------------------------------------------------------------ transport
\* The body of the page a server sends with an error status.
ErrorPage == <<BadLine("<html>")>>

\* populate_tables_web_1B: requests.get(url, stream=True) raises, or gives a
\* response.  The status is not tested: with an error status the lines of
\* the error page are iterated.
Request_1B ==
    /\ pc = "request" /\ strategy = "1B"
    /\ \E met \in {"ok", "ConnectionError", "HTTPError"} :
          /\ transport' = met
          /\ IF met = "ConnectionError"
             THEN Raise(met) /\ UNCHANGED locals
             ELSE /\ lines' = (IF met = "ok" THEN url ELSE ErrorPage)
                  /\ pc' = "loop"
                  /\ UNCHANGED <<disk, history, call, conn, locals, exc>>
    /\ UNCHANGED <<url, files, path_name, line_count, driver, part2>>

\* populate_tables_web_1B: the connection breaks while the next line is read.
Breaks_1B ==
    /\ pc = "loop" /\ strategy = "1B" /\ pos <= Len(lines)
    /\ transport' = "ChunkedEncodingError"
    /\ Raise("ChunkedEncodingError")
    /\ UNCHANGED <<locals, url, files, path_name, line_count, driver, part2>>

\* populate_tables_txt_1C and batch_insert_data_1D: open(path_name, "r").
OpenFile ==
    /\ pc = "open" /\ strategy \in {"1C", "1D"}
    /\ IF files[path_name].exists
       THEN /\ lines' = SplitLines(files[path_name].content, <<>>)
            /\ pc' = "loop"
            /\ UNCHANGED <<disk, history, call, conn, locals, exc, transport>>
       ELSE /\ transport' = "FileNotFoundError"
            /\ Raise("FileNotFoundError")
            /\ UNCHANGED locals
    /\ UNCHANGED <<url, files, path_name, line_count, driver, part2>>

\* ------------------------------------------------------------ main, part 1
\* tweet_counts and batch_size of main, scaled to the bounds.
tweet_counts == <<1, MaxTarget>>
main_batch_size == MaxBatch

number_of_tweets == tweet_counts[volume]

\* f"tweets_web_{number_of_tweets}.db" and the like
DbName(kind, k) == "tweets_" \o kind \o "_" \o NatStr(k) \o ".db"
SweepDBs == {DbName(kind, tweet_counts[i]) : kind \in {"web", "txt", "batch"},
                                              i \in DOMAIN tweet_counts}

\* The runtime an invocation returns stands for the run that took it.
Runtime == [strategy |-> strategy, total_tweets |-> total_tweets, transport |-> transport]

\* The calls of one turn of the sweep, in order, then the recording.
AfterCall == [1A |-> "1B", 1B |-> "1C", 1C |-> "1D", 1D |-> "record"]
Calls == DOMAIN AfterCall

\* runtime_to_file = save_first_n_tweets_to_file_1A(number_of_tweets, url, path_name)
Main_1A ==
    /\ main_pc = "1A" /\ pc = "idle"
    /\ Enter_1A(number_of_tweets, PathOf(number_of_tweets))

\* create_tables(db_web), which leaves an existing database as it is, and the
\* call of populate_tables_web_1B.
Main_1B ==
    /\ main_pc = "1B" /\ pc = "idle"
    /\ Enter("1B", DbName("web", number_of_tweets), number_of_tweets, 0, "request")
    /\ transport' = "ok"
    /\ UNCHANGED <<lines, url, files, path_name, line_count, driver, part2>>

\* create_tables(db_txt) and the call of populate_tables_txt_1C.
Main_1C ==
    /\ main_pc = "1C" /\ pc = "idle"
    /\ Enter("1C", DbName("txt", number_of_tweets), number_of_tweets, 0, "open")
    /\ path_name' = PathOf(number_of_tweets)
    /\ transport' = "ok"
    /\ UNCHANGED <<lines, url, files, line_count, driver, part2>>

\* create_tables(db_batch) and the call of batch_insert_data_1D.
Main_1D ==
    /\ main_pc = "1D" /\ pc = "idle"
    /\ Enter("1D", DbName("batch", number_of_tweets), number_of_tweets,
             main_batch_size, "open")
    /\ path_name' = PathOf(number_of_tweets)
    /\ transport' = "ok"
    /\ UNCHANGED <<lines, url, files, line_count, driver, part2>>

\* The call returns: its runtime is assigned (and, after 1B, 1C and 1D, the
\* row counts are queried and printed by execute_and_report_queries).
Main_Returned ==
    /\ main_pc \in Calls /\ pc = "done"
    /\ runtimes' = [c \in DOMAIN runtimes \cup {main_pc} |->
                       IF c = main_pc THEN Runtime ELSE runtimes[c]]
    /\ main_pc' = AfterCall[main_pc]
    /\ pc' = "idle"
    /\ UNCHANGED <<lines, disk, history, call, conn, locals, exc, stream, volume,
                   runtime_results, main_exc, part2>>

\* The call raises: main has no handler, the exception leaves main.
Main_Propagates ==
    /\ main_pc \in Calls /\ pc = "raised" /\ main_exc = ""
    /\ main_exc' = exc
    /\ UNCHANGED <<lines, disk, history, pc, call, conn, locals, exc, stream,
                   main_pc, volume, runtimes, runtime_results, part2>>

\* runtime_results[number_of_tweets] = {...} and the next turn of the for
\* loop, or its end.
Main_Record ==
    /\ main_pc = "record"
    /\ runtime_results' =
          [k \in DOMAIN runtime_results \cup {number_of_tweets} |->
              IF k = number_of_tweets THEN runtimes ELSE runtime_results[k]]
    /\ IF volume < Len(tweet_counts)
       THEN volume' = volume + 1 /\ main_pc' = "1A"
       ELSE volume' = volume /\ main_pc' = "end"
    /\ UNCHANGED <<lines, disk, history, pc, call, conn, locals, exc, stream,
                   runtimes, main_exc, part2>>

\* ------------------------------------------------------------ 2B
\* The rows of Tweet INNER JOIN Geo ON Tweet.geo_id = Geo.geo_id: a NULL geo_id
\* joins no row.
Joined(store) ==
    {[tweet |-> i, user_id |-> store.TWEET[i][10],
      longitude |-> store.GEO[j][3], latitude |-> store.GEO[j][4]] :
        <<i, j>> \in {x \in (DOMAIN store.TWEET) \X (DOMAIN store.GEO) :
                         /\ store.TWEET[x[1]][11] # None
                         /\ store.TWEET[x[1]][11] = store.GEO[x[2]][1]}}

\* query2A: the joined rows grouped by user_id.  Each group is kept as the
\* rows AVG(longitude) and AVG(latitude) are taken over.
Query2A(store) ==
    [u \in {r.user_id : r \in Joined(store)} |->
        {<<r.tweet, r.longitude, r.latitude>> : r \in {x \in Joined(store) : x.user_id = u}}]

\* The lists of iteration counts passed to the functions of part 2.
CountLists == UNION {[1..m -> 1..MaxIterations] : m \in 0..MaxCounts}

\* runtime_results[key] = value
Assign(results, key, value) ==
    [k \in DOMAIN results \cup {key} |-> IF k = key THEN value ELSE results[k]]

\* execute_query_iterations_2B(d, query2A, counts) is entered.
Enter_2B(d, counts) ==
    /\ strategy' = "2B"
    /\ db' = d
    /\ iteration_counts' = counts
    /\ iteration_results' = <<>>
    /\ outer' = 1
    /\ exc' = ""
    /\ pc' = "outer"
    /\ UNCHANGED <<lines, disk, history, total_tweets, batch_size, conn, locals,
                   stream, driver, inner, count, iterations, executed, cursor,
                   user_geo_data, user_location_data>>

\* The outer for loop: count takes the next value of iteration_counts,
\* start_time is taken and the database is connected; or the loop has ended and
\* runtime_results is returned.
Outer_2B ==
    /\ pc = "outer" /\ strategy = "2B"
    /\ IF outer > Len(iteration_counts)
       THEN /\ pc' = "done"
            /\ UNCHANGED <<conn, count, inner, executed>>
       ELSE /\ count' = iteration_counts[outer]
            /\ executed' = 0
            /\ conn' = disk[db]
            /\ inner' = 1
            /\ pc' = "inner"
    /\ UNCHANGED <<lines, disk, history, call, locals, exc, stream, driver,
                   iteration_counts, outer, iterations, iteration_results, cursor,
                   user_geo_data, user_location_data>>

\* The inner for loop, over iteration_counts again and binding count again:
\* the query is executed once for each element of the list.
Inner_2B ==
    /\ pc = "inner" /\ strategy = "2B" /\ inner <= Len(iteration_counts)
    /\ count' = iteration_counts[inner]
    /\ cursor' = Query2A(conn)
    /\ executed' = executed + 1
    /\ inner' = inner + 1
    /\ UNCHANGED <<lines, disk, history, pc, call, conn, locals, exc, stream, driver,
                   iteration_counts, outer, iterations, iteration_results,
                   user_geo_data, user_location_data>>

\* The inner loop has ended: runtime_results[count] = total_runtime, the time
\* since start_time, which stands here for the queries executed in it.
Timed_2B ==
    /\ pc = "inner" /\ strategy = "2B" /\ inner > Len(iteration_counts)
    /\ iteration_results' = Assign(iteration_results, count, executed)
    /\ outer' = outer + 1
    /\ pc' = "outer"
    /\ UNCHANGED <<lines, disk, history, call, conn, locals, exc, stream, driver,
                   iteration_counts, inner, count, iterations, executed, cursor,
                   user_geo_data, user_location_data>>

\* ------------------------------------------------------------ 2C and 2E
\* What the functions of part 2 that read the file leave alone.
ingestion ==
    <<disk, history, db, total_tweets, batch_size, conn, tweets_processed,
      errors_encountered, geo_id, users_batch, geo_batch, tweets_batch>>

\* An exception leaves a function of part 2.
Leaves(e) == pc' = "raised" /\ exc' = e

\* A line adds nothing to the data.
NoReading == [located |-> FALSE]
Reading(user_id, longitude, latitude) ==
    [located |-> TRUE, user_id |-> user_id, longitude |-> longitude, latitude |-> latitude]

\* execute_python_iterations_2C: what the body of the try adds for a line.
reading_2C(line) ==
    LET tweet == json_loads(line)
    IN IF ~tweet.ok THEN tweet
       ELSE LET geo == Get(tweet.val, "geo", None)
       IN IF ~geo.ok THEN geo
       ELSE IF ~Truthy(geo.val) THEN Ok(NoReading)
       ELSE LET has == HasCoordinates(geo.val)
       IN IF ~has.ok THEN has
       ELSE IF ~has.val THEN Ok(NoReading)
       ELSE LET coordinates == Index(geo.val, "coordinates")
       IN IF ~coordinates.ok THEN coordinates
       ELSE LET numeric == AllNumeric(coordinates.val)
       IN IF ~numeric.ok THEN numeric
       ELSE IF ~numeric.val THEN Ok(NoReading)
       ELSE LET user == Index(tweet.val, "user")
       IN IF ~user.ok THEN user
       ELSE LET user_id == Index(user.val, "id_str")
       IN IF ~user_id.ok THEN user_id
       ELSE LET pair == Unpack2(coordinates.val)
       IN IF ~pair.ok THEN pair
       ELSE Ok(Reading(user_id.val, pair.val[1], pair.val[2]))

\* execute_regex_iterations_2E: what the body of the loop adds for a line.
reading_2E(line) ==
    LET user_id_match == user_id_search(line.text)
        geo_match == geo_search(line.text)
    IN IF ~(user_id_match.matched /\ geo_match.matched) THEN Ok(NoReading)
       ELSE LET longitude == float(geo_match.groups[1])
                latitude == float(geo_match.groups[2])
            IN IF ~longitude.ok THEN longitude
               ELSE IF ~latitude.ok THEN latitude
               ELSE Ok(Reading(Str(Join(user_id_match.groups[1])),
                               longitude.val, latitude.val))

\* data[user_id] is created with two empty lists if absent, then longitude
\* and latitude are appended to them.
Appended(data, reading) ==
    LET old == IF reading.user_id \in DOMAIN data THEN data[reading.user_id]
               ELSE [longitude |-> <<>>, latitude |-> <<>>]
    IN Assign(data, reading.user_id,
              [longitude |-> Append(old.longitude, reading.longitude),
               latitude |-> Append(old.latitude, reading.latitude)])

\* execute_python_iterations_2C(p, counts) is entered.
Enter_2C(p, counts) ==
    /\ strategy' = "2C"
    /\ path_name' = p
    /\ iteration_counts' = counts
    /\ iteration_results' = <<>>
    /\ outer' = 1
    /\ exc' = ""
    /\ pc' = "outer"
    /\ UNCHANGED <<lines, ingestion, pos, url, files, transport, line_count, driver,
                   inner, count, iterations, executed, cursor, user_geo_data,
                   user_location_data>>

\* The outer for loop: count takes the next value of iteration_counts,
\* start_time is taken and user_geo_data = {}; or the loop has ended and
\* runtime_results is returned.
Outer_2C ==
    /\ pc = "outer" /\ strategy = "2C"
    /\ IF outer > Len(iteration_counts)
       THEN /\ pc' = "done"
            /\ UNCHANGED <<count, iterations, executed, user_geo_data>>
       ELSE /\ count' = iteration_counts[outer]
            /\ executed' = 0
            /\ user_geo_data' = <<>>
            /\ iterations' = 0
            /\ pc' = "range"
    /\ UNCHANGED <<lines, ingestion, pos, exc, strategy, stream, driver,
                   iteration_counts, outer, inner, iteration_results, cursor,
                   user_location_data>>

\* One more turn of the loop over range(count): the file is opened.
Open_2C ==
    /\ pc = "range" /\ strategy = "2C" /\ iterations < count
    /\ IF files[path_name].exists
       THEN /\ lines' = SplitLines(files[path_name].content, <<>>)
            /\ pos' = 1
            /\ pc' = "file"
            /\ UNCHANGED <<exc, transport>>
       ELSE /\ transport' = "FileNotFoundError"
            /\ Leaves("FileNotFoundError")
            /\ UNCHANGED <<lines, pos>>
    /\ UNCHANGED <<ingestion, strategy, url, files, path_name, line_count, driver, part2>>

\* One line of the file: it is decoded and, if it holds a location, added to
\* user_geo_data; a line json.loads rejects is skipped; at the end of the file
\* the turn of the loop over range(count) ends.
Line_2C ==
    /\ pc = "file" /\ strategy = "2C"
    /\ IF pos > Len(lines)
       THEN /\ iterations' = iterations + 1
            /\ pc' = "range"
            /\ UNCHANGED <<pos, executed, user_geo_data, exc>>
       ELSE LET reading == reading_2C(lines[pos])
            IN IF ~reading.ok /\ reading.exc # "JSONDecodeError"
               THEN /\ Leaves(reading.exc)
                    /\ UNCHANGED <<pos, executed, user_geo_data, iterations>>
               ELSE /\ user_geo_data' =
                          IF reading.ok /\ reading.val.located
                          THEN Appended(user_geo_data, reading.val)
                          ELSE user_geo_data
                    /\ pos' = pos + 1
                    /\ executed' = executed + 1
                    /\ UNCHANGED <<pc, exc, iterations>>
    /\ UNCHANGED <<lines, ingestion, strategy, stream, driver, iteration_counts, outer,
                   inner, count, iteration_results, cursor, user_location_data>>

\* The loop over range(count) has ended: runtime_results[count] = runtime,
\* the time since start_time, which stands here for the lines read in it.
Timed_2C ==
    /\ pc = "range" /\ strategy = "2C" /\ iterations >= count
    /\ iteration_results' = Assign(iteration_results, count, executed)
    /\ outer' = outer + 1
    /\ pc' = "outer"
    /\ UNCHANGED <<lines, ingestion, pos, exc, strategy, stream, driver,
                   iteration_counts, inner, count, iterations, executed, cursor,
                   user_geo_data, user_location_data>>

\* execute_regex_iterations_2E(p, counts) is entered.
Enter_2E(p, counts) ==
    /\ strategy' = "2E"
    /\ path_name' = p
    /\ iteration_counts' = counts
    /\ iteration_results' = <<>>
    /\ outer' = 1
    /\ exc' = ""
    /\ pc' = "outer"
    /\ UNCHANGED <<lines, ingestion, pos, url, files, transport, line_count, driver,
                   inner, count, iterations, executed, cursor, user_geo_data,
                   user_location_data>>

\* The outer for loop: count takes the next value of iteration_counts,
\* start_time is taken and user_location_data = {}; or the loop has ended and
\* runtime_results is returned.
Outer_2E ==
    /\ pc = "outer" /\ strategy = "2E"
    /\ IF outer > Len(iteration_counts)
       THEN /\ pc' = "done"
            /\ UNCHANGED <<count, iterations, executed, user_location_data>>
       ELSE /\ count' = iteration_counts[outer]
            /\ executed' = 0
            /\ user_location_data' = <<>>
            /\ iterations' = 0
            /\ pc' = "range"
    /\ UNCHANGED <<lines, ingestion, pos, exc, strategy, stream, driver,
                   iteration_counts, outer, inner, iteration_results, cursor,
                   user_geo_data>>

\* One more turn of the loop over range(count): the file is opened.
Open_2E ==
    /\ pc = "range" /\ strategy = "2E" /\ iterations < count
    /\ IF files[path_name].exists
       THEN /\ lines' = SplitLines(files[path_name].content, <<>>)
            /\ pos' = 1
            /\ pc' = "file"
            /\ UNCHANGED <<exc, transport>>
       ELSE /\ transport' = "FileNotFoundError"
            /\ Leaves("FileNotFoundError")
            /\ UNCHANGED <<lines, pos>>
    /\ UNCHANGED <<ingestion, strategy, url, files, path_name, line_count, driver, part2>>

\* One line of the file: the two patterns are searched in its text and, if
\* both match, the groups are added to user_location_data; at the end of the
\* file the turn of the loop over range(count) ends.
Line_2E ==
    /\ pc = "file" /\ strategy = "2E"
    /\ IF pos > Len(lines)
       THEN /\ iterations' = iterations + 1
            /\ pc' = "range"
            /\ UNCHANGED <<pos, executed, user_location_data, exc>>
       ELSE LET reading == reading_2E(lines[pos])
            IN IF ~reading.ok
               THEN /\ Leaves(reading.exc)
                    /\ UNCHANGED <<pos, executed, user_location_data, iterations>>
               ELSE /\ user_location_data' =
                          IF reading.val.located
                          THEN Appended(user_location_data, reading.val)
                          ELSE user_location_data
                    /\ pos' = pos + 1
                    /\ executed' = executed + 1
                    /\ UNCHANGED <<pc, exc, iterations>>
    /\ UNCHANGED <<lines, ingestion, strategy, stream, driver, iteration_counts, outer,
                   inner, count, iteration_results, cursor, user_geo_data>>

\* The loop over range(count) has ended: runtime_results[count] = runtime.
Timed_2E ==
    /\ pc = "range" /\ strategy = "2E" /\ iterations >= count
    /\ iteration_results' = Assign(iteration_results, count, executed)
    /\ outer' = outer + 1
    /\ pc' = "outer"
    /\ UNCHANGED <<lines, ingestion, pos, exc, strategy, stream, driver,
                   iteration_counts, inner, count, iterations, executed, cursor,
                   user_geo_data, user_location_data>>

\* ------------------------------------------------------------ main, part 2
\* iteration_counts of main, scaled to the bounds.
main_iteration_counts == <<1, MaxIterations>>

\* Part 2 reads the file and the database that 1A and 1B made for one volume
\* of the sweep; then, for each count, 2B, 2C and 2E are called with [count].
\* In part 2, volume is the position of count in main_iteration_counts.
AfterCall2 == [1A |-> "1B", 1B |-> "2B", 2B |-> "2C", 2C |-> "2E", 2E |-> "next"]
Part2DBs == {DbName("web", k) : k \in 0..MaxTarget}

\* save_first_n_tweets_to_file_1A(number_of_tweets, url, path_name)
Main2_1A ==
    /\ main_pc = "1A" /\ pc = "idle"
    /\ \E k \in 0..MaxTarget : Enter_1A(k, PathOf(k))

\* populate_tables_web_1B(db_web, url, number_of_tweets), with the
\* number_of_tweets that 1A was called with.
Main2_1B ==
    /\ main_pc = "1B" /\ pc = "idle"
    /\ Enter("1B", DbName("web", total_tweets), total_tweets, 0, "request")
    /\ transport' = "ok"
    /\ UNCHANGED <<lines, url, files, path_name, line_count, driver, part2>>

\* execute_query_iterations_2B(db_web, query2A, [count])
Main2_2B ==
    /\ main_pc = "2B" /\ pc = "idle"
    /\ Enter_2B(db, <<main_iteration_counts[volume]>>)

\* execute_python_iterations_2C(path_name, [count])
Main2_2C ==
    /\ main_pc = "2C" /\ pc = "idle"
    /\ Enter_2C(path_name, <<main_iteration_counts[volume]>>)

\* execute_regex_iterations_2E(path_name, [count])
Main2_2E ==
    /\ main_pc = "2E" /\ pc = "idle"
    /\ Enter_2E(path_name, <<main_iteration_counts[volume]>>)

\* The call returns and what it returned is assigned.
Main2_Returned ==
    /\ main_pc \in DOMAIN AfterCall2 /\ pc = "done"
    /\ runtimes' = Assign(runtimes, main_pc,
                          IF main_pc \in {"1A", "1B"} THEN Runtime ELSE iteration_results)
    /\ main_pc' = AfterCall2[main_pc]
    /\ pc' = "idle"
    /\ UNCHANGED <<lines, disk, history, call, conn, locals, exc, stream, volume,
                   runtime_results, main_exc, part2>>

\* The call raises: main has no handler, the exception leaves main.
Main2_Propagates ==
    /\ main_pc \in DOMAIN AfterCall2 /\ pc = "raised" /\ main_exc = ""
    /\ main_exc' = exc
    /\ UNCHANGED <<lines, disk, history, pc, call, conn, locals, exc, stream,
                   main_pc, volume, runtimes, runtime_results, part2>>

\* The three results are recorded under count, and the for loop over the
\* iteration counts takes its next turn or ends.
Main2_Record ==
    /\ main_pc = "next"
    /\ runtime_results' = Assign(runtime_results, main_iteration_counts[volume], runtimes)
    /\ IF volume < Len(main_iteration_counts)
       THEN volume' = volume + 1 /\ main_pc' = "2B"
       ELSE volume' = volume /\ main_pc' = "end"
    /\ UNCHANGED <<lines, disk, history, pc, call, conn, locals, exc, stream,
                   runtimes, main_exc, part2>>

Next ==
    \/ \E s \in {"1B", "1C"}, d \in DBs, n \in 0..MaxTarget : Start(s, d, n, 0)
    \/ \E d \in DBs, n \in 0..MaxTarget, b \in 0..MaxBatch : Start("1D", d, n, b)
    \/ ReadLine_1B
    \/ InsertGeo_1B
    \/ InsertTweet_1B
    \/ ReadLine_1C
    \/ InsertGeo_1C
    \/ InsertTweet_1C
    \/ ReadLine_1D
    \/ FlushUsers_1D
    \/ FlushGeo_1D
    \/ FlushTweets_1D
    \/ Commit
    \/ Return

Spec == Init /\ [][Next]_vars

\* One invocation of batch_insert_data_1D on a newly created database.
NextBatch ==
    \/ /\ pc = "idle"
       /\ \E d \in DBs, n \in 0..MaxTarget, b \in 0..MaxBatch : Start("1D", d, n, b)
    \/ ReadLine_1D
    \/ FlushUsers_1D
    \/ FlushGeo_1D
    \/ FlushTweets_1D
    \/ Commit
    \/ Return

SpecBatch == Init /\ [][NextBatch]_vars

\* One invocation of save_first_n_tweets_to_file_1A.
InitStream ==
    /\ url \in Inputs
    /\ lines = <<>>
    /\ disk = [d \in DBs |-> EmptyStore]
    /\ history = [d \in DBs |-> <<>>]
    /\ conn = EmptyStore
    /\ db = "db_txt"
    /\ NotInvoked
    /\ files = [p \in Paths |-> NoFile]
    /\ path_name = PathOf(0)
    /\ transport = "ok"
    /\ line_count = 0
    /\ main_pc = "off"
    /\ volume = 1
    /\ runtimes = <<>>
    /\ runtime_results = <<>>
    /\ main_exc = ""
    /\ Part2Off

NextStream ==
    \/ /\ pc = "idle"
       /\ \E k \in 0..MaxTarget : Enter_1A(k, PathOf(k))
    \/ Request_1A
    \/ Iter_1A
    \/ Breaks_1A
    \/ Except_1A
    \/ Return_1A

SpecStream == InitStream /\ [][NextStream]_vars

\* Part 1 of main: the sweep over tweet_counts, on new databases.
InitSweep ==
    /\ url \in Inputs
    /\ lines = <<>>
    /\ disk = [d \in SweepDBs |-> EmptyStore]
    /\ history = [d \in SweepDBs |-> <<>>]
    /\ conn = EmptyStore
    /\ db = DbName("web", tweet_counts[1])
    /\ NotInvoked
    /\ files = [p \in Paths |-> NoFile]
    /\ path_name = PathOf(0)
    /\ transport = "ok"
    /\ line_count = 0
    /\ main_pc = "1A"
    /\ volume = 1
    /\ runtimes = <<>>
    /\ runtime_results = <<>>
    /\ main_exc = ""
    /\ Part2Off

NextSweep ==
    \/ Main_1A
    \/ Main_1B
    \/ Main_1C
    \/ Main_1D
    \/ Main_Returned
    \/ Main_Propagates
    \/ Main_Record
    \/ Request_1A
    \/ Iter_1A
    \/ Breaks_1A
    \/ Except_1A
    \/ Return_1A
    \/ Request_1B
    \/ Breaks_1B
    \/ OpenFile
    \/ ReadLine_1B
    \/ InsertGeo_1B
    \/ InsertTweet_1B
    \/ ReadLine_1C
    \/ InsertGeo_1C
    \/ InsertTweet_1C
    \/ ReadLine_1D
    \/ FlushUsers_1D
    \/ FlushGeo_1D
    \/ FlushTweets_1D
    \/ Commit
    \/ Return

SpecSweep == InitSweep /\ [][NextSweep]_vars

\* One call of execute_query_iterations_2B on a database create_tables made.
InitQuery ==
    /\ lines = <<>>
    /\ disk = [d \in DBs |-> EmptyStore]
    /\ history = [d \in DBs |-> <<>>]
    /\ conn = EmptyStore
    /\ db = "db_txt"
    /\ NotInvoked
    /\ Standalone

NextQuery ==
    \/ /\ pc = "idle"
       /\ \E d \in DBs, counts \in CountLists : Enter_2B(d, counts)
    \/ Outer_2B
    \/ Inner_2B
    \/ Timed_2B

SpecQuery == InitQuery /\ [][NextQuery]_vars

\* Part 2 of main, after 1A and 1B have made the file and the database of one
\* volume from the lines at url.
InitPart2 ==
    /\ url \in TextInputs
    /\ lines = <<>>
    /\ disk = [d \in Part2DBs |-> EmptyStore]
    /\ history = [d \in Part2DBs |-> <<>>]
    /\ conn = EmptyStore
    /\ db = DbName("web", 0)
    /\ NotInvoked
    /\ files = [p \in Paths |-> NoFile]
    /\ path_name = PathOf(0)
    /\ transport = "ok"
    /\ line_count = 0
    /\ main_pc = "1A"
    /\ volume = 1
    /\ runtimes = <<>>
    /\ runtime_results = <<>>
    /\ main_exc = ""
    /\ Part2Off

NextPart2 ==
    \/ Main2_1A
    \/ Main2_1B
    \/ Main2_2B
    \/ Main2_2C
    \/ Main2_2E
    \/ Main2_Returned
    \/ Main2_Propagates
    \/ Main2_Record
    \/ Request_1A
    \/ Iter_1A
    \/ Except_1A
    \/ Return_1A
    \/ Request_1B
    \/ ReadLine_1B
    \/ InsertGeo_1B
    \/ InsertTweet_1B
    \/ Commit
    \/ Return
    \/ Outer_2B
    \/ Inner_2B
    \/ Timed_2B
    \/ Outer_2C
    \/ Open_2C
    \/ Line_2C
    \/ Timed_2C
    \/ Outer_2E
    \/ Open_2E
    \/ Line_2E
    \/ Timed_2E

SpecPart2 == InitPart2 /\ [][NextPart2]_vars

\* ------------------------------------------------------------ properties
Min(a, b) == IF a < b THEN a ELSE b

Indices(P(_)) == {i \in DOMAIN lines : P(lines[i])}
IsComplete(line) == line \in CompleteRecords
IsRejected(line) == line \in RejectedLines
IsDecodable(line) == line.t = "json"

\* The invocation has ended, by returning or by an exception.
Terminated == pc \in {"done", "raised"}

\* The ended invocation was the first on its database.
FirstRun == Len(history[db]) = 1

\* The line the invocation was working on when it stopped.
AtLine(P(_)) == pos \in DOMAIN lines /\ P(lines[pos])

\* C1: the batched strategy and the single-row strategy, each run once on a new
\* database with the same lines and the same target, leave the same USER, GEO
\* and TWEET contents, whatever the batch size.
C1_BatchEqualsSingleRow ==
    \A d1, d2 \in DBs :
        (/\ Len(history[d1]) = 1 /\ Len(history[d2]) = 1
         /\ pc \in {"done", "raised"}
         /\ history[d1][1].strategy = "1C"
         /\ history[d2][1].strategy = "1D"
         /\ history[d2][1].batch_size > 0
         /\ history[d1][1].total_tweets = history[d2][1].total_tweets)
        => disk[d1] = disk[d2]

\* The same lines and target under two batch sizes (the part of C1 about the
\* batch size alone).
BatchSizeInvariance ==
    \A d1, d2 \in DBs :
        (/\ Len(history[d1]) = 1 /\ Len(history[d2]) = 1
         /\ pc \in {"done", "raised"}
         /\ history[d1][1].strategy = "1D"
         /\ history[d2][1].strategy = "1D"
         /\ history[d1][1].batch_size > 0 /\ history[d2][1].batch_size > 0
         /\ history[d1][1].total_tweets = history[d2][1].total_tweets)
        => disk[d1] = disk[d2]

\* C2: when every line of the input is the same record and every invocation on
\* a database has returned, at least one of them with a target of one or more,
\* the database holds exactly one USER row and one TWEET row (and at most one
\* GEO row) for it, however often it was ingested.
C2_IngestTwiceOneRow ==
    \A d \in DBs :
        (/\ lines # <<>>
         /\ \A i \in DOMAIN lines : lines[i] = lines[1] /\ IsDecodable(lines[i])
         /\ history[d] # <<>>
         /\ \A k \in DOMAIN history[d] : history[d][k].outcome = "returned"
         /\ \E k \in DOMAIN history[d] : history[d][k].total_tweets >= 1)
        => /\ Len(disk[d].USER) = 1
           /\ Len(disk[d].TWEET) = 1
           /\ Len(disk[d].GEO) <= 1

\* The input of C3: complete records with distinct post ids and rejected lines
\* only, the last line a record, and the target the number of records.
ResilienceInput ==
    /\ lines # <<>>
    /\ \A i \in DOMAIN lines : IsComplete(lines[i]) \/ IsRejected(lines[i])
    /\ \A i, j \in Indices(IsComplete) : lines[i] = lines[j] => i = j
    /\ IsComplete(lines[Len(lines)])
    /\ total_tweets = Cardinality(Indices(IsComplete))

\* C3: on an input of N complete records with distinct post ids and M rejected
\* lines before the last record, an invocation with target N on a new database
\* does not raise, and returns with N TWEET rows and an error counter of M.
C3_MalformedResilience ==
    (ResilienceInput /\ pc # "idle")
    => /\ pc # "raised"
       /\ (pc = "done" /\ FirstRun)
          => /\ Len(disk[db].TWEET) = Cardinality(Indices(IsComplete))
             /\ errors_encountered = Cardinality(Indices(IsRejected))

\* A record that is complete but for its geo, which holds coordinates that are
\* not two numbers.
HasInvalidGeo(line) ==
    /\ line.t = "json" /\ line.v.t = "dict" /\ "geo" \in DOMAIN line.v.o
    /\ JsonLine(Dict([line.v.o EXCEPT !.geo = Tweet1.geo])) \in CompleteRecords
    /\ LET geo == line.v.o.geo
       IN /\ geo.t = "dict" /\ "coordinates" \in DOMAIN geo.o
          /\ geo.o.coordinates.t = "list"
          /\ \/ Len(geo.o.coordinates.items) # 2
             \/ \E i \in DOMAIN geo.o.coordinates.items :
                   geo.o.coordinates.items[i].t \notin {"int", "float"}

\* C4: a GEO row always holds a numeric longitude and latitude, and no
\* invocation stops with an exception on a record whose only defect is a geo
\* whose coordinates are not two numbers.
C4_LocationOmission ==
    /\ \A i \in DOMAIN conn.GEO :
          conn.GEO[i][3].t = "float" /\ conn.GEO[i][4].t = "float"
    /\ pc = "raised" => ~AtLine(HasInvalidGeo)

\* C5: in every state of the database as the connection sees it, every TWEET
\* row has a user_id that is not NULL and is the id of a USER row, and a geo_id
\* that is NULL or the geo_id of a GEO row.
C5_ReferentialIntegrity ==
    \A i \in DOMAIN conn.TWEET :
        LET tweet == conn.TWEET[i]
        IN /\ tweet[10] # None
           /\ \E u \in DOMAIN conn.USER : conn.USER[u][1] = tweet[10]
           /\ tweet[11] = None \/ \E g \in DOMAIN conn.GEO : conn.GEO[g][1] = tweet[11]

\* The source value of key k of dict o; an absent key reads as null.
Source(o, k) == IF k \in DOMAIN o THEN o[k] ELSE None
Canonical(value) == IF value \in {Str("NULL"), Str(""), None} THEN None ELSE value

\* C6: after a one-line input was ingested into a new database, the USER and
\* TWEET rows hold, in every column filled from a source field other than the
\* primary key, the source value with "NULL", null and "" replaced by NULL, and
\* in the primary key column the source value itself.  (contributors, user_id
\* and geo_id, which are serialised or derived, are left out.)
C6_NullCanonicalization ==
    (/\ pc = "done" /\ FirstRun /\ Len(lines) = 1 /\ tweets_processed = 1
     /\ "user" \in DOMAIN lines[1].v.o /\ lines[1].v.o.user.t = "dict")
    => LET tweet == lines[1].v.o
           user == tweet.user.o
           row == disk[db].TWEET[1]
           urow == disk[db].USER[1]
       IN /\ urow[2] = Canonical(Source(user, "name"))
          /\ urow[3] = Canonical(Source(user, "screen_name"))
          /\ urow[4] = Canonical(Source(user, "description"))
          /\ urow[5] = Canonical(Source(user, "friends_count"))
          /\ row[1] = Canonical(Source(tweet, "created_at"))
          /\ row[3] = Canonical(Source(tweet, "text"))
          /\ row[4] = Canonical(Source(tweet, "source"))
          /\ row[5] = Canonical(Source(tweet, "in_reply_to_user_id_str"))
          /\ row[6] = Canonical(Source(tweet, "in_reply_to_screen_name"))
          /\ row[7] = Canonical(Source(tweet, "in_reply_to_status_id_str"))
          /\ row[8] = Canonical(Source(tweet, "retweet_count"))
          /\ urow[1] = Source(user, "id_str")
          /\ row[2] = Source(tweet, "id_str")

\* A record that is complete but for its post id, which is missing or null.
LacksPostId(line) ==
    /\ line.t = "json" /\ line.v.t = "dict"
    /\ Source(line.v.o, "id_str") = None
    /\ \E c \in CompleteRecords : Without(c.v.o, "id_str") = Without(line.v.o, "id_str")

\* C7: a record without a post id is skipped: no TWEET row with a NULL id_str
\* is ever written, and no invocation stops with an exception on such a record.
C7_MissingPostIdSkipped ==
    /\ \A i \in DOMAIN conn.TWEET : conn.TWEET[i][2] # None
    /\ pc = "raised" => ~AtLine(LacksPostId)

\* A decodable line that is no object, or an object that is complete but for
\* one missing field that is not the post id.
LacksNonKeyField(line) ==
    /\ line.t = "json"
    /\ \/ line.v.t # "dict"
       \/ \E c \in CompleteRecords :
             \E k \in DOMAIN c.v.o \ {"id_str", "geo"} : line.v.o = Without(c.v.o, k)

\* C8: no invocation stops with an exception on a decodable line that is not
\* an object or lacks a field other than the post id.
C8_RecordErrorsDoNotEscape == pc = "raised" => ~AtLine(LacksNonKeyField)

\* C9: the success counter never exceeds the target, and an invocation ends
\* with the counter at min(target, number of well-formed records), whether
\* "well-formed" counts the complete records only or every decodable line.
C9_StopCondition ==
    /\ pc # "idle" => tweets_processed <= total_tweets
    /\ Terminated =>
          /\ tweets_processed >= Min(total_tweets, Cardinality(Indices(IsComplete)))
          /\ tweets_processed <= Min(total_tweets, Cardinality(Indices(IsDecodable)))

\* The lines a returned invocation consumed and decoded, in order.
ParsedLines == SelectSeq(SubSeq(lines, 1, pos - 1), IsDecodable)

UsersOf(parsed) == [i \in DOMAIN parsed |-> user_tuple_1D(parsed[i].v).val]
TweetsOf(parsed) ==
    [i \in DOMAIN parsed |->
        tweet_tuple_1D(parsed[i].v, geo_tuple_1D(parsed[i].v).val.geo_id).val]
RECURSIVE GeosOf(_)
GeosOf(parsed) ==
    IF parsed = <<>> THEN <<>>
    ELSE geo_tuple_1D(Head(parsed).v).val.writes \o GeosOf(Tail(parsed))

\* The table holds the row of these parameters, or, the key being taken, the
\* row that took it first.
Present(rows, table, params) ==
    LET row == StoredRow(table, params)
        pk == Schema[table].pk
    IN \E r \in DOMAIN rows :
          IF row[pk] = None THEN rows[r] = row ELSE rows[r][pk] = row[pk]

AllPresent(rows, table, batch) ==
    \A i \in DOMAIN batch : Present(rows, table, batch[i])

\* A new database after one write per tuple, table by table.
WrittenOneByOne(parsed) ==
    Executemany(
        Executemany(
            Executemany(EmptyStore, "USER", UsersOf(parsed)).val,
            "GEO", GeosOf(parsed)).val,
        "TWEET", TweetsOf(parsed)).val

\* The running invocation is the first on its database.
OnNewDatabase == Len(history[db]) = (IF pc = "done" THEN 1 ELSE 0)

\* C10: once batch_insert_data_1D is past its loop and its commit, and so when
\* it closes the connection and returns, the committed database is the one the
\* connection sees, it holds the USER, GEO and TWEET tuple of every line the
\* invocation decoded, and on a new database it is exactly what one write per
\* tuple gives: no accumulated tuple is lost, for any batch size.
C10_FinalFlushCommitted ==
    (strategy = "1D" /\ pc \in {"close", "done"})
    => /\ disk[db] = conn
       /\ tweets_processed = Len(ParsedLines)
       /\ AllPresent(disk[db].USER, "USER", UsersOf(ParsedLines))
       /\ AllPresent(disk[db].GEO, "GEO", GeosOf(ParsedLines))
       /\ AllPresent(disk[db].TWEET, "TWEET", TweetsOf(ParsedLines))
       /\ OnNewDatabase => disk[db] = WrittenOneByOne(ParsedLines)

\* C10's case: a returned invocation whose only flush was the final one, of a
\* batch that never reached batch_size.
C10_PartialBatchFlushed ==
    /\ pc = "done" /\ strategy = "1D"
    /\ tweets_processed >= 1 /\ batch_size > tweets_processed
    /\ Len(users_batch) = tweets_processed
    /\ Len(disk[db].TWEET) >= 1 /\ Len(disk[db].GEO) >= 1

\* What holds of the code next to C1, C2, C3 and C9.

\* A decoded record without a contributors key.
LacksContributors(line) ==
    line.t = "json" /\ line.v.t = "dict" /\ "contributors" \notin DOMAIN line.v.o

\* 1C and 1D leave the same contents when every record carries contributors.
BatchEqualsSingleRowWithContributors ==
    \A d1, d2 \in DBs :
        (/\ Len(history[d1]) = 1 /\ Len(history[d2]) = 1
         /\ pc \in {"done", "raised"}
         /\ Indices(LacksContributors) = {}
         /\ history[d1][1].strategy = "1C"
         /\ history[d2][1].strategy = "1D"
         /\ history[d1][1].total_tweets = history[d2][1].total_tweets)
        => disk[d1] = disk[d2]


\* Ingesting a complete record (non-null user id and post id) any number of
\* times leaves one USER row and one TWEET row.
KeyedRecordIngestedOnce ==
    \A d \in DBs :
        (/\ lines # <<>>
         /\ \A i \in DOMAIN lines : lines[i] = lines[1] /\ IsComplete(lines[i])
         /\ history[d] # <<>>
         /\ \A k \in DOMAIN history[d] : history[d][k].outcome = "returned"
         /\ \E k \in DOMAIN history[d] : history[d][k].total_tweets >= 1)
        => /\ Len(disk[d].USER) = 1
           /\ Len(disk[d].TWEET) = 1
           /\ Len(disk[d].GEO) <= 1

\* The file strategies count the rejected lines.
FileStrategiesCountErrors ==
    (ResilienceInput /\ pc # "idle" /\ strategy \in {"1C", "1D"})
    => /\ pc # "raised"
       /\ (pc = "done" /\ FirstRun)
          => /\ Len(disk[db].TWEET) = Cardinality(Indices(IsComplete))
             /\ errors_encountered = Cardinality(Indices(IsRejected))

\* An invocation that returns has counted min(target, decodable lines).
ReturnedAtStopCondition ==
    pc = "done" =>
        tweets_processed = Min(total_tweets, Cardinality(Indices(IsDecodable)))

\* ------------------------------------------------------------ 1A
\* The content of a file to which these lines were written.
RECURSIVE Copied(_)
Copied(ls) == IF ls = <<>> THEN <<>> ELSE Written(Head(ls)) \o Copied(Tail(ls))

\* What save_first_n_tweets_to_file_1A leaves when the transport holds: the
\* file holds the first min(n, L) lines of the response, in order, each followed
\* by a newline; no other file and no database is written.
StreamCopiedVerbatim ==
    (strategy = "1A" /\ pc = "done" /\ transport = "ok")
    => /\ files[path_name] = File(Copied(SubSeq(url, 1, Min(total_tweets, Len(url)))))
       /\ \A p \in Paths \ {path_name} : files[p] = NoFile
       /\ \A d \in DBs : disk[d] = EmptyStore
       /\ line_count = Min(total_tweets, Len(url))

\* C18: save_first_n_tweets_to_file_1A writes exactly the first min(N, L) lines
\* of the stream, in order, each followed by one newline, writes no other file
\* and no database, and never takes from the stream more than the N lines it
\* writes.
C18_StreamToFile ==
    /\ StreamCopiedVerbatim
    /\ strategy = "1A" => pos - 1 <= total_tweets

\* ------------------------------------------------------------ main, part 1
\* The errors of the transport: of the request, of the stream and of the file.
TransportErrors == RequestExceptions \cup {"FileNotFoundError"}
StoreErrors == {"sqlite3.Error"}

\* C11: an invocation whose request, stream or file failed does not return a
\* runtime to its caller, and no runtime of such an invocation is assigned in
\* main or recorded in runtime_results.
C11_TransportFailureSurfaced ==
    /\ pc = "done" => transport = "ok"
    /\ \A c \in DOMAIN runtimes : runtimes[c].transport = "ok"
    /\ \A k \in DOMAIN runtime_results :
          \A c \in DOMAIN runtime_results[k] : runtime_results[k][c].transport = "ok"

\* C12: no transport or store error of one invocation ends the sweep: main is
\* never left by such an exception, and when the sweep ends a result is
\* recorded for every volume of tweet_counts.
C12_FailureIsolation ==
    /\ main_exc \notin TransportErrors \cup StoreErrors
    /\ main_pc = "end" => DOMAIN runtime_results = {tweet_counts[i] : i \in DOMAIN tweet_counts}

\* What holds of main: an exception of an invocation ends the sweep there, and
\* a sweep that ends has recorded the four runtimes of every volume.
SweepRecordsWhatReturned ==
    /\ main_exc # "" => main_pc \in Calls /\ pc = "raised" /\ exc = main_exc
    /\ main_pc = "end" =>
          /\ DOMAIN runtime_results = {tweet_counts[i] : i \in DOMAIN tweet_counts}
          /\ \A k \in DOMAIN runtime_results : DOMAIN runtime_results[k] = Calls
    /\ \A k \in DOMAIN runtime_results :
          \A c \in {"1C", "1D"} \cap DOMAIN runtime_results[k] :
             runtime_results[k][c].transport = "ok"

\* ------------------------------------------------------------ 2B
Range(f) == {f[i] : i \in DOMAIN f}

\* C13: when execute_query_iterations_2B returns, its mapping has exactly the
\* iteration counts of the list as keys, and the timed region recorded for a
\* count k is one in which the query was executed k times.
C13_DeclarativeRepetitionCount ==
    (strategy = "2B" /\ pc = "done")
    => /\ DOMAIN iteration_results = Range(iteration_counts)
       /\ \A k \in DOMAIN iteration_results : iteration_results[k] = k

\* What execute_query_iterations_2B does: every timed region executes the query
\* once for each element of the list, and is recorded under the last element.
QueryRunsOncePerElement ==
    (strategy = "2B" /\ pc = "done" /\ iteration_counts # <<>>)
    => iteration_results =
          Assign(<<>>, iteration_counts[Len(iteration_counts)], Len(iteration_counts))

\* ------------------------------------------------------------ 1B and 1C
\* The network-direct strategy ran once on d1 and the file single-row strategy
\* once on d2, on the same lines with the same target, both on new databases.
RanBothTransports(d1, d2) ==
    /\ Len(history[d1]) = 1 /\ Len(history[d2]) = 1
    /\ pc \in {"done", "raised"}
    /\ history[d1][1].strategy = "1B"
    /\ history[d2][1].strategy = "1C"
    /\ history[d1][1].total_tweets = history[d2][1].total_tweets

\* C16: on the same lines and target, populate_tables_web_1B and
\* populate_tables_txt_1C both return and leave the same USER, GEO and TWEET
\* contents, or both fail.
C16_TransportEquivalence ==
    \A d1, d2 \in DBs :
        RanBothTransports(d1, d2)
        => \/ /\ history[d1][1].outcome = "returned"
              /\ history[d2][1].outcome = "returned"
              /\ disk[d1] = disk[d2]
           \/ /\ history[d1][1].outcome # "returned"
              /\ history[d2][1].outcome # "returned"

\* The two agree on inputs of complete records and rejected lines.
TransportsAgreeOnCompleteRecords ==
    \A d1, d2 \in DBs :
        (/\ RanBothTransports(d1, d2)
         /\ \A i \in DOMAIN lines : IsComplete(lines[i]) \/ IsRejected(lines[i]))
        => /\ history[d1][1].outcome = "returned"
           /\ history[d2][1].outcome = "returned"
           /\ disk[d1] = disk[d2]

\* ------------------------------------------------------------ locations
\* C17: in every state of the database as the connection sees it, no two GEO
\* rows hold the same longitude and latitude, and any two TWEET rows joined to
\* the same longitude and latitude hold the same geo_id.
C17_LocationCollapsing ==
    /\ \A i, j \in DOMAIN conn.GEO :
          (conn.GEO[i][3] = conn.GEO[j][3] /\ conn.GEO[i][4] = conn.GEO[j][4]) => i = j
    /\ \A a, b \in Joined(conn) :
          (a.longitude = b.longitude /\ a.latitude = b.latitude)
          => conn.TWEET[a.tweet][11] = conn.TWEET[b.tweet][11]

\* Locations collapse when the input writes no coordinate as an integer.
LocationsCollapseWhenWrittenAlike ==
    (\A i \in DOMAIN lines : lines[i] \notin IntegerRecords)
    => /\ \A i, j \in DOMAIN conn.GEO :
             (conn.GEO[i][3] = conn.GEO[j][3] /\ conn.GEO[i][4] = conn.GEO[j][4])
             => i = j
       /\ \A a, b \in Joined(conn) :
             (a.longitude = b.longitude /\ a.latitude = b.latitude)
             => conn.TWEET[a.tweet][11] = conn.TWEET[b.tweet][11]

\* ------------------------------------------------------------ 1D batches
\* batch_insert_data_1D runs with a positive batch size.
Batching == strategy = "1D" /\ batch_size > 0 /\ pc # "idle"

\* The accumulators are bounded by the batch size; between two records they
\* hold less than it, and the batch next in the order USER, GEO, TWEET is
\* written only when the batches before it are in the database.
BoundedAccumulators ==
    Batching
    => /\ Len(users_batch) <= batch_size
       /\ Len(geo_batch) <= batch_size
       /\ Len(tweets_batch) <= batch_size
       /\ pc = "loop" => /\ Len(users_batch) = Len(tweets_batch)
                         /\ Len(users_batch) < batch_size
                         /\ Len(geo_batch) <= Len(users_batch)
       /\ pc \in {"flush_geo", "final_geo", "flush_tweet", "final_tweet"}
          => AllPresent(conn.USER, "USER", users_batch)
       /\ pc \in {"flush_tweet", "final_tweet"}
          => AllPresent(conn.GEO, "GEO", geo_batch)

\* A flush, in the loop or after it, is under way.
Flushing ==
    pc \in {"flush_user", "flush_geo", "flush_tweet", "final_user", "final_geo", "final_tweet"}

\* A flush goes from the USER batch to the GEO batch to the TWEET batch, the
\* accumulators are emptied only by the last step of a flush in the loop, all
\* three at once, and they are not touched while a flush is under way.
JointFlush ==
    Batching
    => /\ pc = "flush_user" => pc' \in {"flush_geo", "raised"}
       /\ pc = "flush_geo" => pc' \in {"flush_tweet", "raised"}
       /\ pc = "flush_tweet" => pc' \in {"loop", "raised"}
       /\ pc = "final_user" => pc' \in {"final_geo", "raised"}
       /\ pc = "final_geo" => pc' \in {"final_tweet", "raised"}
       /\ pc = "final_tweet" => pc' \in {"commit", "raised"}
       /\ (pc = "flush_tweet" /\ pc' = "loop")
          => (users_batch' = <<>> /\ geo_batch' = <<>> /\ tweets_batch' = <<>>)
       /\ (Flushing /\ ~(pc = "flush_tweet" /\ pc' = "loop"))
          => UNCHANGED <<users_batch, geo_batch, tweets_batch>>
       /\ pc = "loop"
          => /\ Len(users_batch') >= Len(users_batch)
             /\ Len(geo_batch') >= Len(geo_batch)
             /\ Len(tweets_batch') >= Len(tweets_batch)

\* C19: with a positive batch size B, a flush writes the USER batch, then the
\* GEO batch, then the TWEET batch, and the flush in the loop empties the three
\* accumulators together; after each record and its flush test the USER and
\* TWEET accumulators are equally long and shorter than B, the GEO accumulator
\* is no longer than them, and no accumulator ever holds more than B tuples.
C19_JointFlushBounded == []BoundedAccumulators /\ [][JointFlush]_vars

\* C19's case: a batch of B = 2 records, one of them without location, was
\* flushed when its second record was appended, and the accumulators are empty.
C19_FlushedWithShorterGeoBatch ==
    /\ pc = "loop" /\ strategy = "1D" /\ batch_size = 2 /\ tweets_processed = 2
    /\ users_batch = <<>> /\ geo_batch = <<>> /\ tweets_batch = <<>>
    /\ Len(conn.USER) >= 1 /\ Len(conn.TWEET) = 2 /\ Len(conn.GEO) = 1

\* ------------------------------------------------------------ 2B and 2C
\* A number as the REAL columns hold it and as Python compares it: 10 is 10.0.
Num(v) == IF v.t = "int" THEN PyFloat(v.neg, v.w, 0) ELSE v

\* Per user, the (longitude, latitude) pairs of the rows the query groups.
QuerySets ==
    [u \in DOMAIN cursor |-> {<<Num(r[2]), Num(r[3])>> : r \in cursor[u]}]

\* Per user, the (longitude, latitude) pairs of the lists data holds.
PairSets(data) ==
    [u \in DOMAIN data |->
        {<<Num(data[u].longitude[i]), Num(data[u].latitude[i])>> :
            i \in DOMAIN data[u].longitude}]

\* 1A and 1B both got the lines at url, and then 2B and 2C have returned for
\* one iteration.
AggregatedOnce ==
    /\ main_pc = "2C" /\ pc = "done" /\ count = 1
    /\ runtimes["1A"].transport = "ok"
    /\ runtimes["1B"].transport = "ok"

\* C14: when the file and the store were made from the same lines with the same
\* target, the per-user sets of (longitude, latitude) pairs that the query
\* groups from the store equal the per-user sets that one iteration of
\* execute_python_iterations_2C accumulates from the file.
C14_AggregationAgreement ==
    AggregatedOnce => QuerySets = PairSets(user_geo_data)

\* The post id of a line that json.loads decodes.
PostId(line) == line.v.o["id_str"]

\* The first total_tweets lines at url are all decoded or all the lines at
\* url, and no two lines at url hold the same post id.
SameDataset ==
    /\ \/ Len(url) <= total_tweets
       \/ \A i \in DOMAIN url : json_loads(url[i]).ok
    /\ \A i, j \in DOMAIN url :
          (i # j /\ json_loads(url[i]).ok /\ json_loads(url[j]).ok)
          => PostId(url[i]) # PostId(url[j])

\* What holds: the two agree when the store and the file hold the same posts,
\* each once.
AggregationAgreesOnSameDataset ==
    (AggregatedOnce /\ SameDataset) => QuerySets = PairSets(user_geo_data)

\* ------------------------------------------------------------ 2C and 2E
\* The lists data holds per user, as numbers.
NumLists(data) ==
    [u \in DOMAIN data |->
        [longitude |-> [i \in DOMAIN data[u].longitude |-> Num(data[u].longitude[i])],
         latitude |-> [i \in DOMAIN data[u].latitude |-> Num(data[u].latitude[i])]]]

\* 2C and then 2E have returned for the same file and the same count.
BothPassesReturned == main_pc = "2E" /\ pc = "done"

\* C15: for every file and iteration count, execute_regex_iterations_2E
\* accumulates per user id the same longitude and latitude lists as
\* execute_python_iterations_2C: each located record is keyed by the id of its
\* user, and every pair of two numbers is recognised, negative and integer ones
\* included.
C15_PatternMatchEqualsStructured ==
    BothPassesReturned => NumLists(user_location_data) = NumLists(user_geo_data)

\* The text of a decoded line is laid out as the two patterns ask, with user
\* ahead of the post's id_str, and its coordinates, if any, are floats that are
\* not negative.
PatternsFit(line) ==
    json_loads(line).ok =>
       /\ line.text = RenderValue(line.v, MixedUserFirst)
       /\ \/ line.v.o["geo"] = None
          \/ \A i \in DOMAIN line.v.o["geo"].o["coordinates"].items :
                LET c == line.v.o["geo"].o["coordinates"].items[i]
                IN c.t = "float" /\ ~c.neg

\* What holds: the two passes agree on the files whose lines all fit the
\* patterns.
PassesAgreeWhenPatternsFit ==
    (BothPassesReturned /\ \A i \in DOMAIN lines : PatternsFit(lines[i]))
    => NumLists(user_location_data) = NumLists(user_geo_data)

\* A state that is reached: a file of fitting lines has given the two passes a
\* location to accumulate.
FittingFileLocated ==
    /\ BothPassesReturned
    /\ \A i \in DOMAIN lines : PatternsFit(lines[i])
    /\ user_geo_data # <<>>
============================================================================
